---- MODULE Spec2Model ----
(***************************************************************************)
(* RootSphere: the recommendation decision-fusion engine                   *)
(* (backend/api/recommendation.py), the nutrient standards table           *)
(* (backend/api/crop_nutrient_standards.py), the per-field rainfall        *)
(* forecaster and its shared service instance                              *)
(* (backend/api/services/weather_ml.py), and the snapshot, recommendation  *)
(* and sensor-assignment endpoints (backend/api/main.py, crud.py).         *)
(*                                                                         *)
(* Specifications.  Spec: the engine on one request.  SpecForecaster: one  *)
(* prediction and one training run of a field.  SpecApi: one request to    *)
(* the snapshot or the recommendation endpoint.  SpecService: training     *)
(* runs and a prediction on the shared service.  SpecAssign: two requests  *)
(* to the assignment endpoint.  Each leaves the others' variables idle.    *)
(*                                                                         *)
(* Units.  Rainfall is in tenths of a millimetre (2.0 mm = 20), pH in      *)
(* tenths (5.5 = 55), soil moisture in whole percent, N/P/K in kg/ha,      *)
(* doses in kg/acre, volume in litres/acre, time in hours, and the         *)
(* data-completeness score in thousandths before rounding and in           *)
(* hundredths after it.                                                    *)
(*                                                                         *)
(* Strings.  A crop or growth-stage string is the sequence of its          *)
(* character codes, so that lower() and capitalize() are computed.  A      *)
(* message or a classifier label is the sequence of its words, so that     *)
(* the `in` substring tests of the code are computed on the text.          *)
(* An Optional value is the empty sequence (None) or a one-element         *)
(* sequence.                                                               *)
(***************************************************************************)
EXTENDS Integers, Sequences, FiniteSets, TLC

VARIABLES snapshot,        \* the FieldSnapshotV1 passed to the engine
          lstm_forecast,   \* Optional list of model rainfall values
          classifier_out,  \* what classifier.predict answers for this reading
          pc,              \* "request" before the call, "done" after it
          rec,             \* Optional RecommendationResponse
          now,             \* the wall clock, datetime.utcnow(), in hours
          model_file,      \* models/model_{field_id}.pth
          scaler_file,     \* models/scaler_{field_id}.joblib
          recent_data,     \* the rows passed to predict_next_3_days
          ppc,             \* where predict_next_3_days stands
          tpc,             \* where train_model_for_field stands
          found,           \* the outcome of the os.path.exists test
          exc,             \* Optional exception raised inside the try
          raw,             \* Optional rain column before clamping
          prediction,      \* Optional list returned by predict_next_3_days
          db,              \* the rows of the tables the endpoints read and write
          request,         \* the endpoint called and the field_id of its path
          apc,             \* where the endpoint's handler stands
          response,        \* Optional HTTP response: status and body
          self_scaler,     \* what weather_ml_service.scaler was last fitted on
          models_dir,      \* the scaler and model files of every field
          training,        \* the runs of train_model_for_field
          serving,         \* one call of predict_next_3_days
          assignments,     \* the committed rows of sensor_assignments
          calls            \* the requests to POST /sensors/{sensor_id}/assign

engine_vars == <<snapshot, lstm_forecast, classifier_out, pc, rec, now>>
forecaster_vars ==
    <<model_file, scaler_file, recent_data, ppc, tpc, found, exc, raw, prediction>>
api_vars == <<db, request, apc, response>>
\* the variables that neither the engine nor the forecaster touches
service_vars == <<self_scaler, models_dir, training, serving>>
assign_vars == <<assignments, calls>>
bystander_vars == <<api_vars, service_vars, assign_vars>>
vars == <<engine_vars, forecaster_vars, bystander_vars>>

None == <<>>
Some(x) == <<x>>

----------------------------------------------------------------------------
(* Bounds of the model *)

MaxForecastPoints == 2
MaxImages == 1

----------------------------------------------------------------------------
(* str.lower(), str.capitalize(), and the `in` test on texts *)

LowerChar(c) == IF c \in 65..90 THEN c + 32 ELSE c
UpperChar(c) == IF c \in 97..122 THEN c - 32 ELSE c

\* the string left as it was sent
Lower_AsSent(s) == s

Lower(s) == [i \in 1..Len(s) |-> LowerChar(s[i])]

Capitalize(s) == [i \in 1..Len(s) |-> IF i = 1 THEN UpperChar(s[i]) ELSE LowerChar(s[i])]

\* `sub in text`: sub occurs as a contiguous run of text
Contains(text, sub) ==
    \E i \in 1..(Len(text) - Len(sub) + 1) : SubSeq(text, i, i + Len(sub) - 1) = sub

rice == <<114, 105, 99, 101>>
wheat == <<119, 104, 101, 97, 116>>
maize == <<109, 97, 105, 122, 101>>
vegetative == <<118, 101, 103, 101, 116, 97, 116, 105, 118, 101>>
flowering == <<102, 108, 111, 119, 101, 114, 105, 110, 103>>

----------------------------------------------------------------------------
(* recommendation.py: configuration tables *)

DefaultMoistureThreshold == 30
DefaultIrrigationLiters == 400

\* MOISTURE_THRESHOLDS.get(crop, 30.0)
MOISTURE_THRESHOLDS(crop) ==
    CASE crop = rice -> 50
      [] crop = wheat -> 30
      [] crop = maize -> 25
      [] OTHER -> DefaultMoistureThreshold

\* the volume read from the moisture table
IRRIGATION_LITERS_FromThresholds(crop) == MOISTURE_THRESHOLDS(crop)

\* IRRIGATION_LITERS.get(crop, 0.0): no volume for a crop outside the table
IRRIGATION_LITERS_NoDefault(crop) ==
    CASE crop = rice -> 1000
      [] crop = wheat -> 500
      [] crop = maize -> 400
      [] OTHER -> 0

\* IRRIGATION_LITERS.get(crop, 400.0)
IRRIGATION_LITERS(crop) ==
    CASE crop = rice -> 1000
      [] crop = wheat -> 500
      [] crop = maize -> 400
      [] OTHER -> DefaultIrrigationLiters

DefaultTarget == [n |-> 40, p |-> 30, k |-> 20]

\* a listed crop with an unlisted stage given the crop's vegetative target
FERTILIZER_TARGETS_CropFallback(crop, stage) ==
    CASE crop = wheat /\ stage = flowering -> [n |-> 30, p |-> 40, k |-> 30]
      [] crop = wheat -> [n |-> 50, p |-> 30, k |-> 20]
      [] crop = rice /\ stage = flowering -> [n |-> 40, p |-> 40, k |-> 40]
      [] crop = rice -> [n |-> 60, p |-> 30, k |-> 30]
      [] OTHER -> DefaultTarget

\* FERTILIZER_TARGETS.get(crop, FERTILIZER_TARGETS["default"])
\*                   .get(stage, FERTILIZER_TARGETS["default"]["default"])
FERTILIZER_TARGETS(crop, stage) ==
    CASE crop = wheat /\ stage = vegetative -> [n |-> 50, p |-> 30, k |-> 20]
      [] crop = wheat /\ stage = flowering -> [n |-> 30, p |-> 40, k |-> 30]
      [] crop = rice /\ stage = vegetative -> [n |-> 60, p |-> 30, k |-> 30]
      [] crop = rice /\ stage = flowering -> [n |-> 40, p |-> 40, k |-> 40]
      [] OTHER -> DefaultTarget

----------------------------------------------------------------------------
(* crop_nutrient_standards.py *)

Req(n, p, k, lo, hi, m, src) ==
    [n_min |-> n, p_min |-> p, k_min |-> k, ph_range |-> <<lo, hi>>,
     moisture_min |-> m, sources |-> src]

DEFAULT_REQUIREMENTS == Req(280, 10, 120, 60, 75, 30, <<"ICAR General Guidelines">>)

KnownCrops == {rice, wheat, maize}

\* CROP_NUTRIENT_REQUIREMENTS[crop], a table from stage to thresholds
CROP_NUTRIENT_REQUIREMENTS(crop) ==
    CASE crop = rice ->
           (vegetative :> Req(280, 10, 120, 55, 70, 40,
                              <<"TNAU Crop Production Guide", "ICAR Soil Health Card Manual">>)
            @@ flowering :> Req(200, 15, 140, 55, 70, 50,
                                <<"TNAU Agritech Portal", "NFSM Guidelines">>))
      [] crop = wheat ->
           (vegetative :> Req(280, 10, 110, 60, 75, 25,
                              <<"TNAU rainfed", "ICAR RDF irrigated", "HP Agriculture Dept">>)
            @@ flowering :> Req(200, 12, 120, 60, 75, 30,
                                <<"IIWBR Late-Sown Guidelines">>))
      [] crop = maize ->
           (vegetative :> Req(300, 12, 120, 55, 75, 30,
                              <<"TNAU varieties", "TNAU hybrids", "FAO late-maturing">>)
            @@ flowering :> Req(250, 15, 140, 55, 75, 35,
                                <<"FAO Fertilizer Guidelines", "TNAU Agritech">>))

\* the stage never looked at: a known crop always gets its vegetative entry
get_crop_requirements_IgnoresStage(crop_in, growth_stage) ==
    LET crop == Lower(crop_in)
    IN  IF crop \in KnownCrops
        THEN CROP_NUTRIENT_REQUIREMENTS(crop)[vegetative]
        ELSE DEFAULT_REQUIREMENTS

\* an unlisted stage of a known crop sent to the global default
get_crop_requirements_NoStageFallback(crop_in, growth_stage) ==
    LET crop == Lower(crop_in)
        stage == Lower(growth_stage)
    IN  IF crop \in KnownCrops /\ stage \in DOMAIN CROP_NUTRIENT_REQUIREMENTS(crop)
        THEN CROP_NUTRIENT_REQUIREMENTS(crop)[stage]
        ELSE DEFAULT_REQUIREMENTS

get_crop_requirements(crop_in, growth_stage) ==
    LET crop == Lower(crop_in)
        stage == Lower(growth_stage)
    IN  IF crop \in KnownCrops
        THEN IF stage \in DOMAIN CROP_NUTRIENT_REQUIREMENTS(crop)
             THEN CROP_NUTRIENT_REQUIREMENTS(crop)[stage]
             ELSE IF vegetative \in DOMAIN CROP_NUTRIENT_REQUIREMENTS(crop)
                  THEN CROP_NUTRIENT_REQUIREMENTS(crop)[vegetative]
                  ELSE DEFAULT_REQUIREMENTS
        ELSE DEFAULT_REQUIREMENTS

\* a message: its words and the numbers formatted into it
Msg(words, args) == [text |-> words, args |-> args]

n_adequate_of(n, req) == n >= req.n_min
p_adequate_of(p, req) == p >= req.p_min
k_adequate_of(k, req) == k >= req.k_min
\* the ends of the pH range left out
ph_adequate_of_Exclusive(ph, req) == req.ph_range[1] < ph /\ ph < req.ph_range[2]

ph_adequate_of(ph, req) == req.ph_range[1] <= ph /\ ph <= req.ph_range[2]
moisture_adequate_of(moisture, req) == moisture >= req.moisture_min

check_nutrient_adequacy(crop, growth_stage, n, p, k, ph, moisture) ==
    LET req == get_crop_requirements(crop, growth_stage)
        n_adequate == n_adequate_of(n, req)
        p_adequate == p_adequate_of(p, req)
        k_adequate == k_adequate_of(k, req)
        ph_adequate == ph_adequate_of(ph, req)
        moisture_adequate == moisture_adequate_of(moisture, req)
        d1 == IF ~n_adequate
              THEN <<Msg(<<"Nitrogen", "is", "low">>, <<n, req.n_min>>)>> ELSE <<>>
        d2 == IF ~p_adequate
              THEN <<Msg(<<"Phosphorus", "is", "low">>, <<p, req.p_min>>)>> ELSE <<>>
        d3 == IF ~k_adequate
              THEN <<Msg(<<"Potassium", "is", "low">>, <<k, req.k_min>>)>> ELSE <<>>
        d4 == IF ~ph_adequate
              THEN IF ph < req.ph_range[1]
                   THEN <<Msg(<<"Soil", "is", "too", "acidic", "(", "pH", ")">>, <<ph>>)>>
                   ELSE <<Msg(<<"Soil", "is", "too", "alkaline", "(", "pH", ")">>, <<ph>>)>>
              ELSE <<>>
        d5 == IF ~moisture_adequate
              THEN <<Msg(<<"Soil", "moisture", "is", "low">>, <<moisture>>)>> ELSE <<>>
    IN  [n_adequate |-> n_adequate,
         p_adequate |-> p_adequate,
         k_adequate |-> k_adequate,
         ph_adequate |-> ph_adequate,
         moisture_adequate |-> moisture_adequate,
         deficiencies |-> d1 \o d2 \o d3 \o d4 \o d5,
         requirements |-> req]

----------------------------------------------------------------------------
(* recommendation.py: generate_recommendation_logic, part by part *)

\* Python truthiness of the snapshot's optional parts
HasSensor(snap) == snap.sensor_readings # None
HasWeather(snap) == snap.weather # None
HasImages(snap) == Len(snap.images) > 0
\* the empty forecast list taken as a forecast
HasForecast_AnyWeather(snap) == HasWeather(snap)

HasForecast(snap) == HasWeather(snap) /\ Len(snap.weather[1].forecast_72h) > 0

CompletenessStart == 600
CompletenessStep == 100
CompletenessPenalty == 200

Max(a, b) == IF a >= b THEN a ELSE b
Min(a, b) == IF a <= b THEN a ELSE b

\* round(x, 2) of a score held in thousandths; the result is in hundredths
Round2(x) == (x + 5) \div 10

\* missing weather penalised like a missing sensor reading
DataCompleteness_WeatherPenalty(snap) ==
    LET s1 == IF HasSensor(snap) THEN CompletenessStart + CompletenessStep
                                 ELSE CompletenessStart - CompletenessPenalty
        s2 == IF HasWeather(snap) THEN s1 + CompletenessStep ELSE s1 - CompletenessPenalty
        s3 == IF HasImages(snap) THEN s2 + CompletenessStep ELSE s2
    IN  Round2(Max(0, Min(1000, s3)))

\* lines 42-61: the score, clamped to [0, 1] and rounded to 2 decimals
DataCompleteness(snap) ==
    LET s1 == IF HasSensor(snap) THEN CompletenessStart + CompletenessStep
                                 ELSE CompletenessStart - CompletenessPenalty
        s2 == IF HasWeather(snap) THEN s1 + CompletenessStep ELSE s1
        s3 == IF HasImages(snap) THEN s2 + CompletenessStep ELSE s2
    IN  Round2(Max(0, Min(1000, s3)))

\* lines 46-55: the completeness notes
CompletenessNotes(snap) ==
    (IF HasSensor(snap) THEN <<>>
     ELSE <<Msg(<<"Missing", "sensor", "readings", "(critical", "data).">>, <<>>)>>)
    \o
    (IF HasWeather(snap) THEN <<>>
     ELSE <<Msg(<<"Missing", "weather", "data", "(past", "24h).">>, <<>>)>>)

ForecastWindowHours == 24

RECURSIVE SumRainUntil(_, _)
\* lines 91-95: the loop over forecast_72h
SumRainUntil(points, limit_ts) ==
    IF points = <<>> THEN 0
    ELSE (IF Head(points).ts <= limit_ts THEN Head(points).rainfall_mm ELSE 0)
         + SumRainUntil(Tail(points), limit_ts)

\* the window counted from the wall clock, the `now` of line 80
RainfallNext24h_WallClock(snap) ==
    IF HasForecast(snap)
    THEN SumRainUntil(snap.weather[1].forecast_72h, now + ForecastWindowHours)
    ELSE 0

\* lines 78-95: rainfall_next_24h
RainfallNext24h(snap) ==
    IF HasForecast(snap)
    THEN SumRainUntil(snap.weather[1].forecast_72h, snap.snapshot_ts + ForecastWindowHours)
    ELSE 0

\* `if lstm_forecast and len(lstm_forecast) >= 2`
ForecastUsable(lstm) == lstm # None /\ Len(lstm[1]) > 0 /\ Len(lstm[1]) >= 2

\* lines 102-106
AiRain24h(lstm) == IF ForecastUsable(lstm) THEN lstm[1][1] ELSE 0
AiRain48h(lstm) == IF ForecastUsable(lstm) THEN lstm[1][1] + lstm[1][2] ELSE 0

Abs(x) == IF x < 0 THEN -x ELSE x

DisagreeLimit == 50
DryApiLimit == 10
HeavyRainLimit == 100
ApiRainTodayLimit == 20
AiRainTodayLimit == 30
StormLimit == 80

DisagreeAlert == <<"Uncertain", "weather:", "Forecasts", "disagree", "significantly.">>
StormAlert == <<"Warning:", "Heavy", "rain", "predicted", "soon.">>

\* the storm warning tested before the disagreement
RiskAlert_StormFirst(api24, ai24, ai48) ==
    IF api24 < DryApiLimit /\ ai48 > HeavyRainLimit THEN Some(StormAlert)
    ELSE IF Abs(api24 - ai24) > DisagreeLimit THEN Some(DisagreeAlert)
    ELSE None

\* lines 109-113: conflict detection, given the three rainfall figures
RiskAlert(api24, ai24, ai48) ==
    IF Abs(api24 - ai24) > DisagreeLimit THEN Some(DisagreeAlert)
    ELSE IF api24 < DryApiLimit /\ ai48 > HeavyRainLimit THEN Some(StormAlert)
    ELSE None

\* rain today only when both sources predict it
WillRainToday_Both(api24, ai24) == api24 > ApiRainTodayLimit /\ ai24 > AiRainTodayLimit

\* line 118
WillRainToday(api24, ai24) == api24 > ApiRainTodayLimit \/ ai24 > AiRainTodayLimit

\* the API comparison turned round
StormApproaching_Flipped(api24, ai48) == api24 > ApiRainTodayLimit /\ ai48 > StormLimit

\* line 122
StormApproaching(api24, ai48) == api24 < ApiRainTodayLimit /\ ai48 > StormLimit

\* line 127
RainSource(api24) == IF api24 > ApiRainTodayLimit THEN <<"API">> ELSE <<"AI", "Model">>

\* the boundary counted as a deficit
MoistureDeficit_Inclusive(moisture, thresh) == moisture <= thresh

\* `moisture < thresh`, line 99
MoistureDeficit(moisture, thresh) == moisture < thresh

\* the action initialised like the fertilizer's
IrrigationNoSensor_NoAction ==
    [action |-> "NO_ACTION", liters_per_acre |-> 0, timing |-> "unknown",
     risk_alert |-> None,
     why |-> <<Msg(<<"Cannot", "determine", "irrigation", "need", "without",
                     "soil", "moisture.">>, <<>>)>>]

\* lines 67-72: no soil moisture to decide on
IrrigationNoSensor ==
    [action |-> "UNKNOWN", liters_per_acre |-> 0, timing |-> "unknown",
     risk_alert |-> None,
     why |-> <<Msg(<<"Cannot", "determine", "irrigation", "need", "without",
                     "soil", "moisture.">>, <<>>)>>]

\* lines 115-141: the arbitration between the two forecasts under a deficit
Arbitrate(crop, api24, ai24, ai48) ==
    IF WillRainToday(api24, ai24)
    THEN [action |-> "DELAY", liters_per_acre |-> 0, timing |-> "after rain",
          why |-> <<Msg(<<"Rain", "predicted", "by">> \o RainSource(api24)
                        \o <<"-", "save", "water">>, <<>>)>>]
    ELSE IF StormApproaching(api24, ai48)
    THEN [action |-> "DELAY", liters_per_acre |-> 0, timing |-> "until after storm",
          why |-> <<Msg(<<"Storm", "approaching", "in", "48h", "-", "wait">>, <<>>)>>]
    ELSE [action |-> "IRRIGATE_NOW", liters_per_acre |-> IRRIGATION_LITERS(crop),
          timing |-> "now",
          why |-> <<Msg(<<"Weather", "is", "clear", "-", "safe", "to", "irrigate">>,
                        <<>>)>>]

\* the 24 h window counted from the wall clock in place of snapshot_ts
Irrigation_AtWallClock(snap, lstm, crop) ==
    IF ~HasSensor(snap)
    THEN IrrigationNoSensor
    ELSE
      LET moisture == snap.sensor_readings[1].moisture
          thresh == MOISTURE_THRESHOLDS(crop)
          rainfall_next_24h == RainfallNext24h([snap EXCEPT !.snapshot_ts = now])
          noForecast == IF HasForecast(snap) THEN <<>>
                        ELSE <<Msg(<<"No", "weather", "forecast", "available;",
                                     "assuming", "0", "rain.">>, <<>>)>>
      IN  IF MoistureDeficit(moisture, thresh)
          THEN LET ai_rain_24h == AiRain24h(lstm)
                   ai_rain_48h == AiRain48h(lstm)
                   risk_alert == RiskAlert(rainfall_next_24h, ai_rain_24h, ai_rain_48h)
                   d == Arbitrate(crop, rainfall_next_24h, ai_rain_24h, ai_rain_48h)
               IN  [action |-> d.action, liters_per_acre |-> d.liters_per_acre,
                    timing |-> d.timing,
                    risk_alert |-> risk_alert,
                    why |-> noForecast \o d.why
                            \o (IF risk_alert # None /\ Len(risk_alert[1]) > 0
                                THEN <<Msg(risk_alert[1], <<>>)>> ELSE <<>>)]
          ELSE [action |-> "NO_ACTION", liters_per_acre |-> 0, timing |-> "unknown",
                risk_alert |-> None,
                why |-> noForecast
                        \o <<Msg(<<"Moisture", "%", "is", "sufficient", "(>=", "%).">>,
                                 <<moisture, thresh>>)>>]

\* lines 66-147: the irrigation decision and its notes
Irrigation(snap, lstm, crop) ==
    IF ~HasSensor(snap)
    THEN IrrigationNoSensor
    ELSE
      LET moisture == snap.sensor_readings[1].moisture
          thresh == MOISTURE_THRESHOLDS(crop)
          rainfall_next_24h == RainfallNext24h(snap)
          noForecast == IF HasForecast(snap) THEN <<>>
                        ELSE <<Msg(<<"No", "weather", "forecast", "available;",
                                     "assuming", "0", "rain.">>, <<>>)>>
      IN  IF MoistureDeficit(moisture, thresh)
          THEN LET ai_rain_24h == AiRain24h(lstm)
                   ai_rain_48h == AiRain48h(lstm)
                   risk_alert == RiskAlert(rainfall_next_24h, ai_rain_24h, ai_rain_48h)
                   d == Arbitrate(crop, rainfall_next_24h, ai_rain_24h, ai_rain_48h)
               IN  [action |-> d.action, liters_per_acre |-> d.liters_per_acre,
                    timing |-> d.timing,
                    risk_alert |-> risk_alert,
                    why |-> noForecast \o d.why
                            \o (IF risk_alert # None /\ Len(risk_alert[1]) > 0
                                THEN <<Msg(risk_alert[1], <<>>)>> ELSE <<>>)]
          ELSE [action |-> "NO_ACTION", liters_per_acre |-> 0, timing |-> "unknown",
                risk_alert |-> None,
                why |-> noForecast
                        \o <<Msg(<<"Moisture", "%", "is", "sufficient", "(>=", "%).">>,
                                 <<moisture, thresh>>)>>]

RECURSIVE FertilizerLines(_)
\* lines 192-196: the deficiency lines copied into the rationale
FertilizerLines(deficiencies) ==
    IF deficiencies = <<>> THEN <<>>
    ELSE LET m == Head(deficiencies)
         IN  (IF \/ Contains(m.text, <<"Nitrogen">>)
                 \/ Contains(m.text, <<"Phosphorus">>)
                 \/ Contains(m.text, <<"Potassium">>)
                 \/ Contains(m.text, <<"pH">>)
              THEN <<m>> ELSE <<>>)
             \o FertilizerLines(Tail(deficiencies))

\* line 185
HasDeficiency(adequacy) == Len(adequacy.deficiencies) > 0

\* lines 205-211
MlAgrees(ai_analysis, adequacy) ==
    \/ Contains(ai_analysis, <<"Low", "Nitrogen">>) /\ ~adequacy.n_adequate
    \/ Contains(ai_analysis, <<"Low", "Phosphorus">>) /\ ~adequacy.p_adequate
    \/ Contains(ai_analysis, <<"Low", "Potassium">>) /\ ~adequacy.k_adequate

MlUnavailable == <<"ML", "Model", "Unavailable">>

\* lines 188-222: a deficiency was found
FertilizerApply(crop, stage, adequacy, ai_analysis) ==
    LET targets == FERTILIZER_TARGETS(crop, stage)
    IN  [action |-> "APPLY", timing |-> "next suitable day",
         n_kg_acre |-> targets.n, p_kg_acre |-> targets.p, k_kg_acre |-> targets.k,
         ai_analysis |-> ai_analysis,
         why |-> FertilizerLines(adequacy.deficiencies)
                 \o <<Msg(<<"As", "per:", adequacy.requirements.sources[1]>>, <<>>)>>
                 \o (IF MlAgrees(ai_analysis, adequacy)
                     THEN <<Msg(<<"Digital", "check:", "Confirmed">> \o ai_analysis,
                                <<>>)>>
                     ELSE <<Msg(<<"Digital", "check:", "Suggests">> \o ai_analysis
                                \o <<"-", "consider", "retesting">>, <<>>)>>)]

\* the retesting note for every answer other than "Healthy"
FertilizerHealthy_NoteUnlessHealthy(crop, stage, adequacy, ai_analysis) ==
    [action |-> "NO_ACTION", timing |-> "N/A",
     n_kg_acre |-> 0, p_kg_acre |-> 0, k_kg_acre |-> 0,
     ai_analysis |-> ai_analysis,
     why |-> <<Msg(<<"Soil", "is", "healthy", "for", "(", "stage)">>,
                   Capitalize(crop) \o stage),
               Msg(<<"Digital", "check:">> \o ai_analysis, <<>>)>>
             \o (IF ai_analysis # <<"Healthy">> /\ ~HasDeficiency(adequacy)
                 THEN <<Msg(<<"Note:", "Digital", "check", "found", "potential",
                              "issue", "-", "consider", "retesting">>, <<>>)>>
                 ELSE <<>>)]

\* lines 150-154 and 224-229: no deficiency was found
FertilizerHealthy(crop, stage, adequacy, ai_analysis) ==
    [action |-> "NO_ACTION", timing |-> "N/A",
     n_kg_acre |-> 0, p_kg_acre |-> 0, k_kg_acre |-> 0,
     ai_analysis |-> ai_analysis,
     why |-> <<Msg(<<"Soil", "is", "healthy", "for", "(", "stage)">>,
                   Capitalize(crop) \o stage),
               Msg(<<"Digital", "check:">> \o ai_analysis, <<>>)>>
             \o (IF Contains(ai_analysis, <<"Low">>) /\ ~HasDeficiency(adequacy)
                 THEN <<Msg(<<"Note:", "Digital", "check", "found", "potential",
                              "issue", "-", "consider", "retesting">>, <<>>)>>
                 ELSE <<>>)]

\* the fertilizer action initialised like the irrigation's
FertilizerNoSensor_Unknown ==
    [action |-> "UNKNOWN", timing |-> "N/A",
     n_kg_acre |-> 0, p_kg_acre |-> 0, k_kg_acre |-> 0,
     ai_analysis |-> MlUnavailable,
     why |-> <<Msg(<<"Cannot", "determine", "fertilizer", "needs", "without",
                     "soil", "test.">>, <<>>)>>]

\* lines 150-155 and 231-232: no soil test to decide on
FertilizerNoSensor ==
    [action |-> "NO_ACTION", timing |-> "N/A",
     n_kg_acre |-> 0, p_kg_acre |-> 0, k_kg_acre |-> 0,
     ai_analysis |-> MlUnavailable,
     why |-> <<Msg(<<"Cannot", "determine", "fertilizer", "needs", "without",
                     "soil", "test.">>, <<>>)>>]

\* a "Low ..." answer of the classifier taken as a deficiency
Fertilizer_ClassifierOverrides(snap, crop, stage, label) ==
    IF HasSensor(snap)
    THEN LET sr == snap.sensor_readings[1]
             adequacy == check_nutrient_adequacy(crop, stage, sr.n, sr.p, sr.k, sr.ph,
                                                 sr.moisture)
         IN  IF HasDeficiency(adequacy) \/ Contains(label, <<"Low">>)
             THEN FertilizerApply(crop, stage, adequacy, label)
             ELSE FertilizerHealthy(crop, stage, adequacy, label)
    ELSE FertilizerNoSensor

\* lines 149-232: the fertilizer decision and its notes; label is what
\* classifier.predict returns for the reading
Fertilizer(snap, crop, stage, label) ==
    IF HasSensor(snap)
    THEN LET sr == snap.sensor_readings[1]
             adequacy == check_nutrient_adequacy(crop, stage, sr.n, sr.p, sr.k, sr.ph,
                                                 sr.moisture)
         IN  IF HasDeficiency(adequacy)
             THEN FertilizerApply(crop, stage, adequacy, label)
             ELSE FertilizerHealthy(crop, stage, adequacy, label)
    ELSE FertilizerNoSensor

\* the fertilizer notes written before the irrigation notes
generate_recommendation_logic_FertilizerFirst(snap, lstm, label) ==
    LET crop == Lower(snap.crop)
        stage == Lower(snap.growth_stage)
        irr == Irrigation(snap, lstm, crop)
        fert == Fertilizer(snap, crop, stage, label)
    IN  [field_id |-> snap.field_id,
         ts |-> now,
         irrigation |-> [action |-> irr.action,
                         liters_per_acre |-> irr.liters_per_acre,
                         timing |-> irr.timing],
         fertilizer |-> [action |-> fert.action,
                         n_kg_acre |-> fert.n_kg_acre,
                         p_kg_acre |-> fert.p_kg_acre,
                         k_kg_acre |-> fert.k_kg_acre,
                         timing |-> fert.timing],
         data_completeness |-> DataCompleteness(snap),
         why |-> CompletenessNotes(snap) \o fert.why \o irr.why,
         ai_analysis |-> fert.ai_analysis,
         ai_forecast |-> lstm,
         risk_alert |-> irr.risk_alert]

\* lines 40-257: the whole engine; line 237 stamps the wall clock
generate_recommendation_logic(snap, lstm, label) ==
    LET crop == Lower(snap.crop)
        stage == Lower(snap.growth_stage)
        irr == Irrigation(snap, lstm, crop)
        fert == Fertilizer(snap, crop, stage, label)
    IN  [field_id |-> snap.field_id,
         ts |-> now,
         irrigation |-> [action |-> irr.action,
                         liters_per_acre |-> irr.liters_per_acre,
                         timing |-> irr.timing],
         fertilizer |-> [action |-> fert.action,
                         n_kg_acre |-> fert.n_kg_acre,
                         p_kg_acre |-> fert.p_kg_acre,
                         k_kg_acre |-> fert.k_kg_acre,
                         timing |-> fert.timing],
         data_completeness |-> DataCompleteness(snap),
         why |-> CompletenessNotes(snap) \o irr.why \o fert.why,
         ai_analysis |-> fert.ai_analysis,
         ai_forecast |-> lstm,
         risk_alert |-> irr.risk_alert]

----------------------------------------------------------------------------
(* The inputs a request can carry *)

barley == <<98, 97, 114, 108, 101, 121>>
Wheat == <<87, 104, 101, 97, 116>>
veg == <<118, 101, 103>>
Flowering == <<70, 108, 111, 119, 101, 114, 105, 110, 103>>

Crops == {rice, wheat, maize, barley, Wheat}
Stages == {vegetative, flowering, veg, Flowering}

Labels == {<<"Healthy">>, <<"Low", "Nitrogen">>, <<"Low", "Phosphorus">>,
           <<"Low", "Potassium">>, <<"Low", "Moisture">>, <<"Acidic", "Soil">>,
           <<"Alkaline", "Soil">>, <<"Model", "Not", "Available">>,
           <<"Analysis", "Failed">>}

Reading(n, p, k, ph, moisture) == [n |-> n, p |-> p, k |-> k, ph |-> ph, moisture |-> moisture]

MoistureValues == {20, 25, 30, 50}

\* readings adequate in N, P, K and pH for every table entry
AdequateReadings == {Reading(300, 15, 140, 70, m) : m \in MoistureValues}

AllReadings ==
    {Reading(n, p, k, ph, m) : n \in {150, 280, 300}, p \in {5, 15}, k \in {100, 140},
                               ph \in {50, 55, 60, 70, 75, 80}, m \in {25, 30, 50}}

\* forecast points: at the edge of the 24 h window and just past it
Points == [ts : {24, 25}, rainfall_mm : {5, 20, 21, 60}]

\* get_forecast_72h returns the points in ascending order of ts
Sorted(l) == \A i \in 1..(Len(l) - 1) : l[i].ts <= l[i + 1].ts

ForecastLists ==
    UNION {{l \in [1..n -> Points] : Sorted(l)} : n \in 0..MaxForecastPoints}

WeatherSummary(l) == [rainfall_mm_24h |-> 0, forecast_72h |-> l]

Weathers == {None} \cup {Some(WeatherSummary(l)) : l \in ForecastLists}

Pt(ts, mm) == [ts |-> ts, rainfall_mm |-> mm]

\* no weather, an empty forecast, and forecasts whose 24 h totals are
\* 0, 0.5, 1.0, 2.0, 2.1 and 6.0 mm
KeyWeathers ==
    {None} \cup {Some(WeatherSummary(l)) :
                    l \in {<<>>, <<Pt(25, 60)>>, <<Pt(24, 5)>>, <<Pt(24, 5), Pt(24, 5)>>,
                           <<Pt(24, 20)>>, <<Pt(24, 20), Pt(25, 60)>>, <<Pt(24, 21)>>,
                           <<Pt(24, 60)>>}}

FewWeathers ==
    {None, Some(WeatherSummary(<<>>)),
     Some(WeatherSummary(<<[ts |-> 24, rainfall_mm |-> 60]>>)),
     Some(WeatherSummary(<<[ts |-> 25, rainfall_mm |-> 60]>>))}

\* day+1 and day+2 rainfall of the model's answers
ModelDays == {<<0, 0>>, <<10, 10>>, <<0, 80>>, <<0, 81>>, <<0, 100>>, <<0, 101>>,
              <<0, 120>>, <<30, 90>>, <<31, 89>>, <<70, 50>>, <<50, 0>>, <<55, 0>>}

Forecasts ==
    {None, Some(<<>>), Some(<<60>>), Some(<<0, 0, 40>>)}
    \cup {Some(<<d[1], d[2], 0>>) : d \in ModelDays}

FewForecasts == {None, Some(<<>>), Some(<<60>>), Some(<<0, 0, 0>>), Some(<<0, 120, 0>>)}

ImageLists == {[i \in 1..n |-> i] : n \in 0..MaxImages}

Snapshot(crop, stage, sensor, weather, images) ==
    [field_id |-> "f1", crop |-> crop, growth_stage |-> stage, snapshot_ts |-> 0,
     sensor_readings |-> sensor, weather |-> weather, images |-> images]

\* the request whose snapshot, model forecast and classifier answer these are
Request(snap, lstm, label) ==
    /\ snapshot = snap
    /\ lstm_forecast = lstm
    /\ classifier_out = label

\* every crop and moisture against the 24 h totals and every model forecast
IrrigationRequests ==
    \E c \in Crops, r \in AdequateReadings, w \in KeyWeathers, f \in Forecasts :
        Request(Snapshot(c, vegetative, Some(r), w, <<>>), f, <<"Healthy">>)

\* a dry and a moist reading against every weather and model forecast
ForecastRequests ==
    \E m \in {20, 30}, w \in Weathers, f \in Forecasts :
        Request(Snapshot(wheat, vegetative, Some(Reading(300, 15, 140, 70, m)), w, <<>>), f,
                <<"Healthy">>)

\* every reading against every crop and stage
FertilizerRequests ==
    \E c \in Crops, s \in Stages, r \in AllReadings,
       l \in {<<"Healthy">>, <<"Low", "Nitrogen">>} :
        Request(Snapshot(c, s, Some(r), None, <<>>), None, l)

\* readings short in every combination of N, P and K, and an acidic one
ShortReadings ==
    {Reading(n, p, k, 70, m) : n \in {150, 300}, p \in {5, 15}, k \in {100, 140},
                               m \in {25, 50}}
    \cup {Reading(300, 15, 140, 50, 50)}

\* every classifier answer against every combination of shortages
LabelRequests ==
    \E c \in {wheat, maize, barley}, s \in {vegetative, flowering}, r \in ShortReadings,
       l \in Labels :
        Request(Snapshot(c, s, Some(r), None, <<>>), None, l)

\* no sensor reading, against every weather, model forecast and image list
NoSensorRequests ==
    \E c \in {wheat, barley}, w \in Weathers, f \in FewForecasts, im \in ImageLists :
        Request(Snapshot(c, vegetative, None, w, im), f, <<"Healthy">>)

\* every combination of present and absent parts
PresenceRequests ==
    \E c \in {wheat, barley},
       sr \in {None, Some(Reading(300, 15, 140, 70, 20)), Some(Reading(150, 15, 140, 70, 20)),
               Some(Reading(300, 15, 140, 70, 50))},
       w \in FewWeathers, im \in ImageLists, f \in FewForecasts,
       l \in {<<"Healthy">>, <<"Low", "Nitrogen">>, <<"Model", "Not", "Available">>} :
        Request(Snapshot(c, vegetative, sr, w, im), f, l)

----------------------------------------------------------------------------
(* services/weather_ml.py: the per-field rainfall forecaster.  A file is   *)
(* "absent", "partial" (opened for writing and not yet complete, or left   *)
(* so by a write that was cut short) or "ok".  A row of recent_data is the *)
(* set of the keys of its dict.  Predicted rainfall is in tenths of a      *)
(* millimetre.                                                             *)

FileStates == {"absent", "partial", "ok"}

\* `df[["temp_max", "temp_min", "rain", "humidity"]]`
Columns == {"temp_max", "temp_min", "rain", "humidity"}

FullRow == Columns
RowWithoutHumidity == Columns \ {"humidity"}

\* the history handed to predict_next_3_days: none, complete, or lacking a column
RecentData == {<<>>, <<FullRow, FullRow>>, <<RowWithoutHumidity, RowWithoutHumidity>>,
               <<RowWithoutHumidity, FullRow>>}

\* pd.DataFrame(recent_data) has the union of the rows' keys as its columns
FrameColumns(data) == UNION {data[i] : i \in 1..Len(data)}

\* self.output_size, the forecasting horizon in days
output_size == 3

\* the rain column after scaler.inverse_transform, one value a day
RainValues == {-3, 0, 12}
RawPredictions == [1..output_size -> RainValues]

Zeros == [i \in 1..output_size |-> 0]

\* `max(0.0, float(x))`
ClampRain(x) == IF x > 0 THEN x ELSE 0

\* the classes `except Exception` catches
ExceptionClasses == {"RuntimeError", "EOFError", "KeyError", "ValueError"}

\* a handler for file errors only
Caught_FileErrorsOnly(e) == e \in {"EOFError", "FileNotFoundError"}

\* `except Exception as e`, line 172
Caught(e) == e \in ExceptionClasses

\* no prediction and no training under way, no files on disk
ForecasterIdle ==
    /\ model_file = "absent" /\ scaler_file = "absent"
    /\ recent_data = <<>>
    /\ ppc = "idle" /\ tpc = "idle"
    /\ found = FALSE /\ exc = None /\ raw = None /\ prediction = None

----------------------------------------------------------------------------
(* services/weather_ml.py, the shared instance.  weather_ml_service is one *)
(* object: every training run fits and dumps the same self.scaler.  A      *)
(* scaler is known by the run that fitted it and the field whose history   *)
(* it was fitted on; a file is absent, partial (being written, or torn) or *)
(* written: a scaler with the run that dumped it, or weights with the run  *)
(* that trained them.  Run 0 is a training that ended before the runs of   *)
(* the model start.                                                        *)

Fields == {"A", "B"}
Runs == {1, 2}
EarlierRun == 0

\* MinMaxScaler() of __init__, fitted on nothing
Unfitted == [fitted_on |-> "none", fitted_by |-> EarlierRun]

Fit(field, run) == [fitted_on |-> field, fitted_by |-> run]

Absent == [state |-> "absent", content |-> None]
Partial == [state |-> "partial", content |-> None]

\* scaler_{field_id}.joblib written to its end
ScalerFile(scaler, run) ==
    [state |-> "ok", content |-> Some([scaler |-> scaler, written_by |-> run])]

\* model_{field_id}.pth written to its end: weights trained on this field's history
ModelFile(field, run) ==
    [state |-> "ok", content |-> Some([trained_on |-> field, written_by |-> run])]

Written(file) == file.state = "ok"

\* nothing on disk for the field, or the two files an earlier run left
NoFiles == [scaler |-> Absent, model |-> Absent]
EarlierFiles(field) ==
    [scaler |-> ScalerFile(Fit(field, EarlierRun), EarlierRun),
     model |-> ModelFile(field, EarlierRun)]

\* another run is writing the same file of the same field
OtherWriter(run, position) ==
    \E o \in Runs \ {run} :
        training[o].field = training[run].field /\ training[o].pc = position

\* the file a finished write leaves: its content, or a torn file when another
\* run was writing it at the same time
AfterWrite(content, run, position) ==
    {content} \cup (IF OtherWriter(run, position) THEN {Partial} ELSE {})

\* the service stands by
ServiceIdle ==
    /\ self_scaler = Unfitted
    /\ models_dir = [f \in Fields |-> NoFiles]
    /\ training = [r \in Runs |-> [field |-> "A", pc |-> "idle", dumped |-> Unfitted]]
    /\ serving = [field |-> "A", pc |-> "idle", model |-> Absent, scaler |-> Absent,
                  answer |-> None]

----------------------------------------------------------------------------
(* crud.assign_sensor and its endpoint.  Every request has its own         *)
(* database session: its query sees the committed rows, and its changes    *)
(* (the deactivated row and the new row) reach the table together when it  *)
(* commits.  A timestamp is the number of commits made before it was       *)
(* taken.                                                                  *)

Calls == {1, 2}
SensorIds == {"s1", "s2"}

\* the sensors and fields that have a row
KnownSensors == {"s1"}
KnownFields == {"f1", "f2"}

\* a row of sensor_assignments
Assignment(id, sensor_id, field_id, active, ended_at) ==
    [id |-> id, sensor_id |-> sensor_id, field_id |-> field_id, active |-> active,
     ended_at |-> ended_at]

\* crud.get_active_assignment: the id of an active row of the sensor, if any
ActiveRows(rows, sensor_id) ==
    {i \in 1..Len(rows) : rows[i].sensor_id = sensor_id /\ rows[i].active}

\* the bodies and paths of the requests
AssignRequests ==
    [path_sensor : SensorIds, sensor_id : SensorIds, field_id : {"f1", "f2", "f9"}]

\* no request to the endpoint
AssignIdle ==
    /\ assignments = <<>>
    /\ calls = [c \in Calls |-> [path_sensor |-> "s1", sensor_id |-> "s1", field_id |-> "f1",
                                 pc |-> "idle", current |-> None, status |-> 0]]

----------------------------------------------------------------------------
(* main.py, crud.py, models.py, schemas.py: the two endpoints that build   *)
(* a field snapshot.  `db` holds what the queries of one request see: the  *)
(* one field row (or None), its latest sensor reading (or None), its       *)
(* latest weather reading (or None), its forecast points of the next 72    *)
(* hours, its latest images and its recommendation rows.                   *)

FieldIds == {"f1", "f2"}

\* a row of the fields table
FieldRow(id, crop, stage) == [id |-> id, crop |-> crop, growth_stage |-> stage]

\* a row of the images table
ImageRow(n) == [id |-> n, ts |-> 0, source |-> "drone", rgb_url |-> "url", notes |-> None]

\* the keyword arguments main.py passes to schemas.ImageSummary, lines 290-292
ImageSummaryGiven == {"ts", "source", "rgb_url", "notes"}

\* the fields of schemas.ImageSummary that have no default, lines 115-119
ImageSummaryRequired == {"id", "ts", "source", "rgb_url"}

\* pydantic validates the keyword arguments against the required fields
ImageSummaryValid == ImageSummaryRequired \subseteq ImageSummaryGiven

\* the attributes of models.Recommendation: its columns and relationships
RecommendationAttributes ==
    {"id", "field_id", "ts", "action_json", "confidence", "why_json", "field", "feedback"}

\* the keys of the dict main.py hands to crud.create_recommendation
RecDataKeys == {"field_id", "ts", "action_json", "data_completeness", "why_json"}

\* the declarative constructor accepts only keyword arguments that name
\* attributes of the mapped class
ConstructorAccepts(keys) == keys \subseteq RecommendationAttributes

\* crud.get_field: the field row with this id, if any
get_field(d, field_id) ==
    IF d.field # None /\ d.field[1].id = field_id THEN d.field ELSE None

\* missing_data, in the order the handler appends
MissingData(d) ==
    (IF d.sensor = None THEN <<"sensor_readings">> ELSE <<>>)
    \o (IF d.weather = None THEN <<"weather">> ELSE <<>>)
    \o (IF d.images = <<>> THEN <<"images">> ELSE <<>>)
    \o (IF d.forecast = <<>> THEN <<"forecast_72h">> ELSE <<>>)

\* the FieldSnapshotV1 built from the rows; the forecast is carried only
\* inside the weather summary
BuiltSnapshot(d, ts) ==
    [field_id |-> d.field[1].id, crop |-> d.field[1].crop,
     growth_stage |-> d.field[1].growth_stage, snapshot_ts |-> ts,
     sensor_readings |-> d.sensor,
     weather |-> IF d.weather = None THEN None ELSE Some(WeatherSummary(d.forecast)),
     images |-> [i \in 1..Len(d.images) |-> i],
     missing_data |-> MissingData(d)]

\* what the databases of the requests hold
Databases ==
    [field : {None, Some(FieldRow("f1", wheat, vegetative)), Some(FieldRow("f1", Wheat, Flowering))},
     sensor : {None, Some(Reading(300, 15, 140, 70, 20)), Some(Reading(150, 15, 140, 70, 50))},
     weather : {None, Some("reading")},
     forecast : {<<>>, <<Pt(24, 60)>>},
     images : {<<>>, <<ImageRow(1)>>},
     recommendations : {<<>>}]

Endpoints == {"latest", "recommend"}

\* no endpoint is being served
ApiIdle ==
    /\ db = [field |-> None, sensor |-> None, weather |-> None, forecast |-> <<>>,
             images |-> <<>>, recommendations |-> <<>>]
    /\ request = [endpoint |-> "latest", field_id |-> "f1"]
    /\ apc = "idle"
    /\ response = None

BystandersIdle == ApiIdle /\ ServiceIdle /\ AssignIdle

----------------------------------------------------------------------------
(* The state machine: one request, answered, and answered again later *)

Init ==
    /\ \/ IrrigationRequests
       \/ ForecastRequests
       \/ FertilizerRequests
       \/ LabelRequests
       \/ NoSensorRequests
       \/ PresenceRequests
    /\ pc = "request"
    /\ rec = None
    /\ now = 0
    /\ ForecasterIdle
    /\ BystandersIdle

\* POST /recommend/{field_id}: the engine runs on the snapshot
GenerateRecommendation ==
    /\ pc = "request"
    /\ rec' = Some(generate_recommendation_logic(snapshot, lstm_forecast, classifier_out))
    /\ pc' = "done"
    /\ UNCHANGED <<snapshot, lstm_forecast, classifier_out, now, forecaster_vars, bystander_vars>>

\* wall-clock times at which the engine is called
Clocks == {0, 1}

\* the same snapshot, model forecast and classifier answer are submitted
\* again at a later wall-clock time; the previous response is kept
RepeatCall ==
    /\ pc = "done"
    /\ \E t \in Clocks : t > now /\ now' = t
    /\ pc' = "request"
    /\ UNCHANGED <<snapshot, lstm_forecast, classifier_out, rec, forecaster_vars, bystander_vars>>

Next == GenerateRecommendation \/ RepeatCall

Spec == Init /\ [][Next]_vars

----------------------------------------------------------------------------
(* The forecaster's state machine: one call of predict_next_3_days and one *)
(* run of train_model_for_field for the same field, interleaved step by    *)
(* step, on whatever files an earlier training left behind.                *)

\* the engine's variables while the forecaster runs
EngineIdle ==
    /\ Request(Snapshot(wheat, vegetative, None, None, <<>>), None, <<"Healthy">>)
    /\ pc = "request" /\ rec = None /\ now = 0

InitForecaster ==
    /\ EngineIdle
    /\ BystandersIdle
    /\ model_file \in FileStates /\ scaler_file \in FileStates
    /\ recent_data \in RecentData
    /\ ppc = "call" /\ tpc = "idle"
    /\ found = FALSE /\ exc = None /\ raw = None /\ prediction = None

\* lines 125-130: both files must exist, or the answer is three zeros
PredictCheck ==
    /\ ppc = "call"
    /\ found' = (model_file # "absent" /\ scaler_file # "absent")
    /\ IF found'
       THEN ppc' = "load_model" /\ UNCHANGED prediction
       ELSE ppc' = "returned" /\ prediction' = Zeros
    /\ UNCHANGED <<engine_vars, bystander_vars, model_file, scaler_file, recent_data, tpc, exc,
                   raw>>

\* lines 135-137: torch.load and load_state_dict
PredictLoadModel ==
    /\ ppc = "load_model"
    /\ IF model_file = "ok"
       THEN ppc' = "load_scaler" /\ UNCHANGED exc
       ELSE ppc' = "except" /\ exc' = Some("RuntimeError")
    /\ UNCHANGED <<engine_vars, bystander_vars, model_file, scaler_file, recent_data, tpc,
                   found, raw,
                   prediction>>

\* line 139: joblib.load
PredictLoadScaler ==
    /\ ppc = "load_scaler"
    /\ IF scaler_file = "ok"
       THEN ppc' = "prepare" /\ UNCHANGED exc
       ELSE ppc' = "except" /\ exc' = Some("EOFError")
    /\ UNCHANGED <<engine_vars, bystander_vars, model_file, scaler_file, recent_data, tpc,
                   found, raw,
                   prediction>>

\* lines 142-148: the frame, its four columns, the scaling
PredictPrepare ==
    /\ ppc = "prepare"
    /\ IF Columns \subseteq FrameColumns(recent_data)
       THEN ppc' = "infer" /\ UNCHANGED exc
       ELSE ppc' = "except" /\ exc' = Some("KeyError")
    /\ UNCHANGED <<engine_vars, bystander_vars, model_file, scaler_file, recent_data, tpc,
                   found, raw,
                   prediction>>

\* lines 151-165: the network's answer, scaled back
PredictInfer ==
    /\ ppc = "infer"
    /\ \E r \in RawPredictions : raw' = Some(r)
    /\ ppc' = "clamp"
    /\ UNCHANGED <<engine_vars, bystander_vars, model_file, scaler_file, recent_data, tpc,
                   found, exc,
                   prediction>>

\* lines 168-170
PredictClamp ==
    /\ ppc = "clamp"
    /\ prediction' = [i \in 1..output_size |-> ClampRain(raw[1][i])]
    /\ ppc' = "returned"
    /\ UNCHANGED <<engine_vars, bystander_vars, model_file, scaler_file, recent_data, tpc,
                   found, exc, raw>>

\* lines 172-174: the handler; what it does not catch reaches the caller
PredictExcept ==
    /\ ppc = "except"
    /\ IF Caught(exc[1])
       THEN ppc' = "returned" /\ prediction' = Zeros
       ELSE ppc' = "raised" /\ UNCHANGED prediction
    /\ UNCHANGED <<engine_vars, bystander_vars, model_file, scaler_file, recent_data, tpc,
                   found, exc, raw>>

\* lines 77-85: the history is fetched and the scaler fitted; the fetch may
\* raise, or bring nothing
TrainFetch ==
    /\ tpc = "idle"
    /\ tpc' \in {"failed", "done", "fitted"}
    /\ UNCHANGED <<engine_vars, bystander_vars, model_file, scaler_file, recent_data, ppc,
                   found, exc, raw,
                   prediction>>

\* lines 87-89: joblib.dump opens the scaler file for writing
TrainDumpScaler ==
    /\ tpc = "fitted"
    /\ scaler_file' = "partial"
    /\ tpc' = "dumping"
    /\ UNCHANGED <<engine_vars, bystander_vars, model_file, recent_data, ppc, found, exc, raw,
                   prediction>>

\* line 89 completes; lines 91-113 train the network
TrainFit ==
    /\ tpc = "dumping"
    /\ scaler_file' = "ok"
    /\ tpc' = "trained"
    /\ UNCHANGED <<engine_vars, bystander_vars, model_file, recent_data, ppc, found, exc, raw,
                   prediction>>

\* lines 116-117: torch.save opens the model file for writing
TrainSaveModel ==
    /\ tpc = "trained"
    /\ model_file' = "partial"
    /\ tpc' = "saving"
    /\ UNCHANGED <<engine_vars, bystander_vars, scaler_file, recent_data, ppc, found, exc, raw,
                   prediction>>

\* line 117 completes
TrainDone ==
    /\ tpc = "saving"
    /\ model_file' = "ok"
    /\ tpc' = "done"
    /\ UNCHANGED <<engine_vars, bystander_vars, scaler_file, recent_data, ppc, found, exc, raw,
                   prediction>>

NextForecaster ==
    \/ PredictCheck \/ PredictLoadModel \/ PredictLoadScaler \/ PredictPrepare
    \/ PredictInfer \/ PredictClamp \/ PredictExcept
    \/ TrainFetch \/ TrainDumpScaler \/ TrainFit \/ TrainSaveModel \/ TrainDone

SpecForecaster == InitForecaster /\ [][NextForecaster]_vars

----------------------------------------------------------------------------
(* The endpoints' state machine: one request to GET /field/{id}/latest or  *)
(* POST /recommend/{id}, step by step.  An exception that leaves a handler *)
(* is answered with status 500.                                            *)

InitApi ==
    /\ snapshot = None /\ lstm_forecast = None /\ rec = None
    /\ classifier_out \in {<<"Healthy">>, <<"Low", "Nitrogen">>}
    /\ pc = "request" /\ now = 0
    /\ ForecasterIdle
    /\ ServiceIdle /\ AssignIdle
    /\ db \in Databases
    /\ request \in [endpoint : Endpoints, field_id : FieldIds]
    /\ apc = "call"
    /\ response = None

Status(code, body) == Some([status |-> code, body |-> body])

\* get_field_snapshot, main.py 235-307, called by both endpoints
GetFieldSnapshot ==
    /\ apc = "call"
    /\ IF get_field(db, request.field_id) = None
       THEN /\ response' = Status(404, None)
            /\ apc' = "done"
            /\ UNCHANGED snapshot
       ELSE IF db.images # <<>> /\ ~ImageSummaryValid
       THEN /\ response' = Status(500, None)
            /\ apc' = "done"
            /\ UNCHANGED snapshot
       ELSE /\ snapshot' = BuiltSnapshot(db, now)
            /\ IF request.endpoint = "latest"
               THEN response' = Status(200, BuiltSnapshot(db, now)) /\ apc' = "done"
               ELSE apc' = "forecast" /\ UNCHANGED response
    /\ UNCHANGED <<lstm_forecast, classifier_out, pc, rec, now, forecaster_vars, service_vars,
                   assign_vars, db, request>>

\* main.py 318-334: the model forecast, or None when anything raised
RecommendForecast ==
    /\ apc = "forecast"
    /\ lstm_forecast' \in {None, Some(<<0, 0, 0>>), Some(<<0, 120, 0>>)}
    /\ apc' = "engine"
    /\ UNCHANGED <<snapshot, classifier_out, pc, rec, now, forecaster_vars, service_vars,
                   assign_vars, db, request,
                   response>>

\* main.py 336: the engine runs on the snapshot just built
RecommendEngine ==
    /\ apc = "engine"
    /\ rec' = Some(generate_recommendation_logic(snapshot, lstm_forecast, classifier_out))
    /\ apc' = "store"
    /\ UNCHANGED <<snapshot, lstm_forecast, classifier_out, pc, now, forecaster_vars,
                   service_vars, assign_vars, db, request,
                   response>>

\* the row crud.create_recommendation adds, with the id the column default gives
RecommendationRow(d, r) ==
    [id |-> Len(d.recommendations) + 1, field_id |-> request.field_id, ts |-> r.ts,
     action_json |-> [irrigation |-> r.irrigation, fertilizer |-> r.fertilizer],
     data_completeness |-> r.data_completeness, why_json |-> r.why]

\* main.py 339-353 and crud.py 29-34: the row is built, added and committed, and
\* its id is put into the response
RecommendStore ==
    /\ apc = "store"
    /\ IF ConstructorAccepts(RecDataKeys)
       THEN /\ db' = [db EXCEPT !.recommendations = Append(@, RecommendationRow(db, rec[1]))]
            /\ response' = Status(200, [id |-> Some(Len(db.recommendations) + 1),
                                        recommendation |-> rec[1]])
       ELSE /\ response' = Status(500, None)
            /\ UNCHANGED db
    /\ apc' = "done"
    /\ UNCHANGED <<engine_vars, forecaster_vars, service_vars, assign_vars, request>>

NextApi == GetFieldSnapshot \/ RecommendForecast \/ RecommendEngine \/ RecommendStore

SpecApi == InitApi /\ [][NextApi]_vars

----------------------------------------------------------------------------
(* The shared service's state machine: the runs of train_model_for_field   *)
(* that background tasks and the training tool start, and one call of      *)
(* predict_next_3_days, interleaved line by line.  Nothing in the service  *)
(* takes a lock.                                                           *)

\* what the service's steps leave alone
outside_service == <<engine_vars, forecaster_vars, api_vars, assign_vars>>

InitService ==
    /\ EngineIdle /\ ForecasterIdle /\ ApiIdle /\ AssignIdle
    /\ self_scaler = Unfitted
    /\ models_dir \in [Fields -> UNION {{NoFiles, EarlierFiles(f)} : f \in Fields}]
    /\ \A f \in Fields : models_dir[f] \in {NoFiles, EarlierFiles(f)}
    /\ training \in [Runs -> [field : Fields, pc : {"idle"}, dumped : {Unfitted}]]
    /\ serving \in [field : Fields, pc : {"call"}, model : {Absent}, scaler : {Absent},
                    answer : {None}]

\* lines 78-81: the history is fetched; the fetch may raise or bring nothing
FetchHistory(r) ==
    /\ training[r].pc = "idle"
    /\ \E next \in {"failed", "done", "fetched"} :
          training' = [training EXCEPT ![r].pc = next]
    /\ UNCHANGED <<outside_service, self_scaler, models_dir, serving>>

\* line 85: self.scaler.fit_transform(df) refits the one shared scaler
FitScaler(r) ==
    /\ training[r].pc = "fetched"
    /\ self_scaler' = Fit(training[r].field, r)
    /\ training' = [training EXCEPT ![r].pc = "fitted"]
    /\ UNCHANGED <<outside_service, models_dir, serving>>

\* lines 88-89: joblib.dump(self.scaler, scaler_path) pickles whatever the
\* shared scaler holds now and opens the field's scaler file
DumpScalerOpen(r) ==
    /\ training[r].pc = "fitted"
    /\ training' = [training EXCEPT ![r].pc = "dumping", ![r].dumped = self_scaler]
    /\ models_dir' = [models_dir EXCEPT ![training[r].field].scaler = Partial]
    /\ UNCHANGED <<outside_service, self_scaler, serving>>

\* line 89 completes; lines 91-113 train the network on the run's own data
DumpScalerClose(r) ==
    /\ training[r].pc = "dumping"
    /\ \E file \in AfterWrite(ScalerFile(training[r].dumped, r), r, "dumping") :
          models_dir' = [models_dir EXCEPT ![training[r].field].scaler = file]
    /\ training' = [training EXCEPT ![r].pc = "trained"]
    /\ UNCHANGED <<outside_service, self_scaler, serving>>

\* lines 116-117: torch.save opens the field's model file
SaveModelOpen(r) ==
    /\ training[r].pc = "trained"
    /\ models_dir' = [models_dir EXCEPT ![training[r].field].model = Partial]
    /\ training' = [training EXCEPT ![r].pc = "saving"]
    /\ UNCHANGED <<outside_service, self_scaler, serving>>

\* line 117 completes
SaveModelClose(r) ==
    /\ training[r].pc = "saving"
    /\ \E file \in AfterWrite(ModelFile(training[r].field, r), r, "saving") :
          models_dir' = [models_dir EXCEPT ![training[r].field].model = file]
    /\ training' = [training EXCEPT ![r].pc = "done"]
    /\ UNCHANGED <<outside_service, self_scaler, serving>>

\* lines 125-130: both files must exist, or the answer is three zeros
ServeCheck ==
    /\ serving.pc = "call"
    /\ LET files == models_dir[serving.field]
       IN  IF files.model = Absent \/ files.scaler = Absent
           THEN serving' = [serving EXCEPT !.pc = "returned", !.answer = Some("zeros")]
           ELSE serving' = [serving EXCEPT !.pc = "load_model"]
    /\ UNCHANGED <<outside_service, self_scaler, models_dir, training>>

\* lines 135-137: torch.load; a file not written to its end raises, and the
\* handler of lines 172-174 answers three zeros
ServeLoadModel ==
    /\ serving.pc = "load_model"
    /\ LET file == models_dir[serving.field].model
       IN  IF Written(file)
           THEN serving' = [serving EXCEPT !.pc = "load_scaler", !.model = file]
           ELSE serving' = [serving EXCEPT !.pc = "returned", !.answer = Some("zeros")]
    /\ UNCHANGED <<outside_service, self_scaler, models_dir, training>>

\* line 139: joblib.load, likewise
ServeLoadScaler ==
    /\ serving.pc = "load_scaler"
    /\ LET file == models_dir[serving.field].scaler
       IN  IF Written(file)
           THEN serving' = [serving EXCEPT !.pc = "infer", !.scaler = file]
           ELSE serving' = [serving EXCEPT !.pc = "returned", !.answer = Some("zeros")]
    /\ UNCHANGED <<outside_service, self_scaler, models_dir, training>>

\* lines 142-170: the prediction is computed from the loaded weights and scaler
ServeInfer ==
    /\ serving.pc = "infer"
    /\ serving' = [serving EXCEPT !.pc = "returned", !.answer = Some("computed")]
    /\ UNCHANGED <<outside_service, self_scaler, models_dir, training>>

NextService ==
    \/ \E r \in Runs : FetchHistory(r)
    \/ \E r \in Runs : FitScaler(r)
    \/ \E r \in Runs : DumpScalerOpen(r)
    \/ \E r \in Runs : DumpScalerClose(r)
    \/ \E r \in Runs : SaveModelOpen(r)
    \/ \E r \in Runs : SaveModelClose(r)
    \/ ServeCheck \/ ServeLoadModel \/ ServeLoadScaler \/ ServeInfer

SpecService == InitService /\ [][NextService]_vars

----------------------------------------------------------------------------
(* The assignment endpoint's state machine: two requests to                *)
(* POST /sensors/{sensor_id}/assign, each in its own session, their steps  *)
(* interleaved.                                                            *)

\* what the endpoint's steps leave alone
outside_assign == <<engine_vars, forecaster_vars, api_vars, service_vars>>

InitAssign ==
    /\ EngineIdle /\ ForecasterIdle /\ ApiIdle /\ ServiceIdle
    /\ assignments \in {<<>>, <<Assignment(1, "s1", "f1", TRUE, None)>>}
    /\ \E q \in [Calls -> AssignRequests] :
          calls = [c \in Calls |->
                      [path_sensor |-> q[c].path_sensor, sensor_id |-> q[c].sensor_id,
                       field_id |-> q[c].field_id, pc |-> "call", current |-> None,
                       status |-> 0]]

\* main.py 430-438: the path and the body must name the same sensor, and the
\* sensor and the field must exist
AssignValidate(c) ==
    /\ calls[c].pc = "call"
    /\ calls' = [calls EXCEPT
                   ![c].status = IF calls[c].path_sensor # calls[c].sensor_id THEN 400
                                 ELSE IF calls[c].sensor_id \notin KnownSensors THEN 404
                                 ELSE IF calls[c].field_id \notin KnownFields THEN 404
                                 ELSE 0,
                   ![c].pc = IF calls[c].path_sensor = calls[c].sensor_id
                                /\ calls[c].sensor_id \in KnownSensors
                                /\ calls[c].field_id \in KnownFields
                             THEN "query" ELSE "done"]
    /\ UNCHANGED <<outside_assign, assignments>>

\* crud.py 206: the session reads the active row of the sensor, if there is one
AssignQuery(c) ==
    /\ calls[c].pc = "query"
    /\ LET active == ActiveRows(assignments, calls[c].sensor_id)
       IN  IF active = {}
           THEN calls' = [calls EXCEPT ![c].pc = "commit", ![c].current = None]
           ELSE \E i \in active :
                   calls' = [calls EXCEPT ![c].pc = "commit", ![c].current = Some(i)]
    /\ UNCHANGED <<outside_assign, assignments>>

\* crud.py 207-223: the row read is deactivated and ended, the new row is
\* added, and the commit writes both
AssignCommit(c) ==
    /\ calls[c].pc = "commit"
    /\ LET ended == IF calls[c].current = None THEN assignments
                    ELSE [assignments EXCEPT ![calls[c].current[1]].active = FALSE,
                                             ![calls[c].current[1]].ended_at =
                                                 Some(Len(assignments))]
       IN  assignments' = Append(ended, Assignment(Len(assignments) + 1, calls[c].sensor_id,
                                                   calls[c].field_id, TRUE, None))
    /\ calls' = [calls EXCEPT ![c].pc = "done", ![c].status = 200]
    /\ UNCHANGED outside_assign

NextAssign ==
    \/ \E c \in Calls : AssignValidate(c)
    \/ \E c \in Calls : AssignQuery(c)
    \/ \E c \in Calls : AssignCommit(c)

SpecAssign == InitAssign /\ [][NextAssign]_vars

----------------------------------------------------------------------------
(* What the properties below speak of *)

Done == pc = "done"
Out == rec[1]
SensorPresent == snapshot.sensor_readings # None
WeatherPresent == snapshot.weather # None
ImagePresent == snapshot.images # <<>>
Sensor == snapshot.sensor_readings[1]
CropKey == Lower(snapshot.crop)
StageKey == Lower(snapshot.growth_stage)

\* the three figures of the ForecastPair, in tenths of a millimetre
ApiRain24h == RainfallNext24h(snapshot)
ModelRain24h == AiRain24h(lstm_forecast)
ModelRain48h == AiRain48h(lstm_forecast)

\* a sensor reading whose moisture is below the crop's irrigation threshold
Deficit == SensorPresent /\ Sensor.moisture < MOISTURE_THRESHOLDS(CropKey)

\* the rationale holds a line with these words
Explains(words) == \E i \in 1..Len(Out.why) : Out.why[i].text = words

----------------------------------------------------------------------------
(* C1: with a sensor reading, whatever label the classifier answers, the   *)
(* engine returns the same fertilizer action, N/P/K dose and timing and    *)
(* the same irrigation decision as it does for any other label.            *)

Decision(r) == <<r.fertilizer, r.irrigation>>

C1_ClassifierNeverDecides ==
    (Done /\ SensorPresent) =>
        \A l \in Labels :
            Decision(generate_recommendation_logic(snapshot, lstm_forecast, l))
                = Decision(Out)

\* a deficiency, a "Healthy" answer, and another answer that changes the rationale
C1_Witness ==
    /\ Done /\ SensorPresent
    /\ Out.fertilizer.action = "APPLY"
    /\ classifier_out = <<"Healthy">>
    /\ \E l \in Labels :
          generate_recommendation_logic(snapshot, lstm_forecast, l).why # Out.why

(* C2: with a sensor reading, the fertilizer action is APPLY (timing "next *)
(* suitable day") exactly when one of N, P, K, pH is inadequate, and       *)
(* NO_ACTION otherwise; low moisture alone does not produce APPLY.         *)

NutrientsAdequate ==
    LET a == check_nutrient_adequacy(CropKey, StageKey, Sensor.n, Sensor.p, Sensor.k,
                                     Sensor.ph, Sensor.moisture)
    IN  a.n_adequate /\ a.p_adequate /\ a.k_adequate /\ a.ph_adequate

C2_ApplyIffNutrientInadequate ==
    (Done /\ SensorPresent) =>
        IF NutrientsAdequate
        THEN Out.fertilizer.action = "NO_ACTION"
        ELSE Out.fertilizer.action = "APPLY"
             /\ Out.fertilizer.timing = "next suitable day"

(* C3: without a sensor reading, whatever the weather, forecasts and       *)
(* images, irrigation is UNKNOWN with zero volume, fertilizer is NO_ACTION *)
(* with zero dose, and the rationale explains both.                        *)

C3_NoSensorNoDecision ==
    (Done /\ ~SensorPresent) =>
        /\ Out.irrigation.action = "UNKNOWN"
        /\ Out.irrigation.liters_per_acre = 0
        /\ Out.fertilizer.action = "NO_ACTION"
        /\ Out.fertilizer.n_kg_acre = 0
        /\ Out.fertilizer.p_kg_acre = 0
        /\ Out.fertilizer.k_kg_acre = 0
        /\ Explains(<<"Cannot", "determine", "irrigation", "need", "without", "soil",
                      "moisture.">>)
        /\ Explains(<<"Cannot", "determine", "fertilizer", "needs", "without", "soil",
                      "test.">>)

\* no sensor reading, but rain in the API forecast, a storm in the model's, and an image
C3_Witness ==
    /\ Done /\ ~SensorPresent
    /\ ApiRain24h > 20
    /\ ModelRain48h > 80
    /\ ImagePresent

(* C4 as stated: with a sensor reading, whichever irrigation action        *)
(* results, risk_alert is the disagreement message when the API and model  *)
(* 24 h figures differ by more than 5.0 mm, else the storm warning when    *)
(* the API figure is below 1.0 mm and the model's 48 h figure above        *)
(* 10.0 mm, else absent.                                                   *)

ExpectedAlert ==
    IF Abs(ApiRain24h - ModelRain24h) > 50 THEN Some(DisagreeAlert)
    ELSE IF ApiRain24h < 10 /\ ModelRain48h > 100 THEN Some(StormAlert)
    ELSE None

C4_AlertWhateverAction ==
    (Done /\ SensorPresent) => Out.risk_alert = ExpectedAlert

(* C4 amended: under a moisture deficit (action DELAY or IRRIGATE_NOW)     *)
(* risk_alert is as stated, the disagreement message taking precedence;    *)
(* with sufficient moisture (action NO_ACTION) no conflict detection runs  *)
(* and risk_alert is absent.                                               *)

C4_AlertUnderDeficit ==
    (Done /\ SensorPresent) =>
        /\ Out.irrigation.action \in {"DELAY", "IRRIGATE_NOW", "NO_ACTION"}
        /\ Out.irrigation.action \in {"DELAY", "IRRIGATE_NOW"}
              => Out.risk_alert = ExpectedAlert
        /\ Out.irrigation.action = "NO_ACTION" => Out.risk_alert = None

\* both conditions hold and the disagreement message is the one reported
C4_Witness ==
    /\ Done /\ Deficit
    /\ Abs(ApiRain24h - ModelRain24h) > 50
    /\ ApiRain24h < 10 /\ ModelRain48h > 100
    /\ Out.risk_alert = Some(DisagreeAlert)

(* C5: under a moisture deficit, an all-zero model forecast and an API     *)
(* figure above 5.0 mm, the recommendation carries no forecasts-disagree   *)
(* risk_alert: an unavailable model is not a source predicting 0 mm.       *)

C5_AllZeroForecastIsUnavailable ==
    (Done /\ Deficit /\ lstm_forecast = Some(<<0, 0, 0>>) /\ ApiRain24h > 50) =>
        Out.risk_alert # Some(DisagreeAlert)

(* C6: under a moisture deficit, when the API figure exceeds 2.0 mm or the *)
(* model's 24 h figure exceeds 3.0 mm, irrigation is DELAY, "after rain",  *)
(* zero volume, and the rationale cites the API when its figure exceeds    *)
(* 2.0 mm and the model otherwise.                                         *)

C6_RainTodayDelays ==
    (Done /\ Deficit /\ (ApiRain24h > 20 \/ ModelRain24h > 30)) =>
        /\ Out.irrigation.action = "DELAY"
        /\ Out.irrigation.timing = "after rain"
        /\ Out.irrigation.liters_per_acre = 0
        /\ IF ApiRain24h > 20
           THEN Explains(<<"Rain", "predicted", "by", "API", "-", "save", "water">>)
           ELSE Explains(<<"Rain", "predicted", "by", "AI", "Model", "-", "save",
                           "water">>)

\* the example: API 6.0 mm, model 0.0 mm
C6_Witness ==
    /\ Done /\ Deficit
    /\ ApiRain24h = 60 /\ ModelRain24h = 0
    /\ Out.irrigation.timing = "after rain"

(* C7 as stated: under a moisture deficit, with an API figure of 0.0 mm    *)
(* and a model 48 h figure of 12.0 mm, for every model 24 h figure a storm *)
(* is approaching and irrigation is DELAY, "until after storm".            *)

C7_StormDelays ==
    (Done /\ Deficit /\ ApiRain24h = 0 /\ ModelRain48h = 120) =>
        /\ ApiRain24h < 20 /\ ModelRain48h > 80
        /\ Out.irrigation.action = "DELAY"
        /\ Out.irrigation.timing = "until after storm"

(* C7 amended: in that case irrigation is always DELAY; the timing is      *)
(* "until after storm" when the model's 24 h figure is at most 3.0 mm and  *)
(* "after rain" when it exceeds 3.0 mm, the rain-today rule coming first.  *)

C7_StormDelaysUnlessRainToday ==
    (Done /\ Deficit /\ ApiRain24h = 0 /\ ModelRain48h = 120) =>
        /\ ApiRain24h < 20 /\ ModelRain48h > 80
        /\ Out.irrigation.action = "DELAY"
        /\ Out.irrigation.timing =
              IF ModelRain24h <= 30 THEN "until after storm" ELSE "after rain"

\* 12.0 mm in 48 h of which exactly 3.0 mm on the first day
C7_Witness ==
    /\ Done /\ Deficit
    /\ ApiRain24h = 0 /\ ModelRain48h = 120 /\ ModelRain24h = 30
    /\ Out.irrigation.timing = "until after storm"

(* C8: under a moisture deficit, when neither rain today nor an            *)
(* approaching storm holds, irrigation is IRRIGATE_NOW, "now", with the    *)
(* crop's volume: rice 1000, wheat 500, maize 400, any other crop 400.     *)

C8_Liters ==
    CASE CropKey = rice -> 1000
      [] CropKey = wheat -> 500
      [] CropKey = maize -> 400
      [] OTHER -> 400

C8_DryIrrigatesNow ==
    (Done /\ Deficit
          /\ ~(ApiRain24h > 20 \/ ModelRain24h > 30)
          /\ ~(ApiRain24h < 20 /\ ModelRain48h > 80)) =>
        /\ Out.irrigation.action = "IRRIGATE_NOW"
        /\ Out.irrigation.timing = "now"
        /\ Out.irrigation.liters_per_acre = C8_Liters

\* the example (API 0.5, model 1.0 and 2.0 mm), for a crop outside the table
C8_Witness ==
    /\ Done /\ Deficit
    /\ ApiRain24h = 5 /\ ModelRain24h = 10 /\ ModelRain48h = 20
    /\ CropKey \notin {rice, wheat, maize}
    /\ Out.irrigation.liters_per_acre = 400

(* C9: with a sensor reading whose moisture is at least the crop's         *)
(* threshold (rice 50, wheat 30, maize 25, any other crop 30), irrigation  *)
(* is NO_ACTION with zero volume whatever the forecasts say.               *)

C9_Threshold ==
    CASE CropKey = rice -> 50
      [] CropKey = wheat -> 30
      [] CropKey = maize -> 25
      [] OTHER -> 30

C9_SufficientMoistureNoAction ==
    (Done /\ SensorPresent /\ Sensor.moisture >= C9_Threshold) =>
        /\ Out.irrigation.action = "NO_ACTION"
        /\ Out.irrigation.liters_per_acre = 0

\* moisture exactly at the threshold, rain forecast by both sources
C9_Witness ==
    /\ Done /\ SensorPresent
    /\ Sensor.moisture = C9_Threshold
    /\ ApiRain24h > 20 /\ ModelRain48h > 100
    /\ Out.irrigation.action = "NO_ACTION"

(* C10: data_completeness lies in [0, 1] and is 0.6, plus 0.1 with a       *)
(* sensor reading else minus 0.2, plus 0.1 with weather, plus 0.1 with an  *)
(* image; sensor alone gives 0.7; the values it takes are exactly 0.4,     *)
(* 0.5, 0.6, 0.7, 0.8 and 0.9.  (Hundredths.)                              *)

C10_Expected ==
    60 + (IF SensorPresent THEN 10 ELSE -20)
       + (IF WeatherPresent THEN 10 ELSE 0)
       + (IF ImagePresent THEN 10 ELSE 0)

C10_Presence(s, w, i) ==
    Snapshot(wheat, vegetative,
             IF s THEN Some(Reading(300, 15, 140, 70, 20)) ELSE None,
             IF w THEN Some(WeatherSummary(<<>>)) ELSE None,
             IF i THEN <<1>> ELSE <<>>)

C10_CompletenessScore ==
    Done =>
        /\ Out.data_completeness \in 0..100
        /\ Out.data_completeness = C10_Expected
        /\ (SensorPresent /\ ~WeatherPresent /\ ~ImagePresent)
              => Out.data_completeness = 70
        /\ {DataCompleteness(C10_Presence(s, w, i)) : s \in BOOLEAN, w \in BOOLEAN,
                                                       i \in BOOLEAN}
              = {40, 50, 60, 70, 80, 90}

\* sensor present, weather absent, image absent
C10_Witness ==
    /\ Done
    /\ SensorPresent /\ ~WeatherPresent /\ ~ImagePresent
    /\ Out.data_completeness = 70

----------------------------------------------------------------------------
(* C11: in the returned rationale every completeness note comes before     *)
(* every irrigation note, and every irrigation note before every           *)
(* fertilizer note: along the list the kind of note never steps back.      *)

StartsWith(text, prefix) ==
    Len(text) >= Len(prefix) /\ SubSeq(text, 1, Len(prefix)) = prefix

CompletenessNote(m) == StartsWith(m.text, <<"Missing">>)

IrrigationNote(m) ==
    \/ StartsWith(m.text, <<"No", "weather", "forecast">>)
    \/ StartsWith(m.text, <<"Cannot", "determine", "irrigation">>)
    \/ StartsWith(m.text, <<"Rain", "predicted">>)
    \/ StartsWith(m.text, <<"Storm", "approaching">>)
    \/ StartsWith(m.text, <<"Weather", "is", "clear">>)
    \/ StartsWith(m.text, <<"Moisture">>)
    \/ m.text \in {DisagreeAlert, StormAlert}

FertilizerNote(m) ==
    \/ \E w \in {"Nitrogen", "Phosphorus", "Potassium", "Note:"} : StartsWith(m.text, <<w>>)
    \/ StartsWith(m.text, <<"Soil", "is", "too">>)
    \/ StartsWith(m.text, <<"As", "per:">>)
    \/ StartsWith(m.text, <<"Digital", "check:">>)
    \/ StartsWith(m.text, <<"Soil", "is", "healthy">>)
    \/ StartsWith(m.text, <<"Cannot", "determine", "fertilizer">>)

\* 1, 2, 3 for the three kinds of note, 0 for a line of no kind
NoteRank(m) ==
    IF CompletenessNote(m) THEN 1
    ELSE IF IrrigationNote(m) THEN 2
    ELSE IF FertilizerNote(m) THEN 3
    ELSE 0

C11_RationaleOrder ==
    Done =>
        /\ \A i \in 1..Len(Out.why) : NoteRank(Out.why[i]) \in 1..3
        /\ \A i \in 1..(Len(Out.why) - 1) :
              NoteRank(Out.why[i]) <= NoteRank(Out.why[i + 1])

\* a rationale with a completeness note, a risk alert after the irrigation
\* line, and deficiency lines
C11_Witness ==
    /\ Done
    /\ \E i, j, k \in 1..Len(Out.why) :
          /\ i < j /\ j < k
          /\ CompletenessNote(Out.why[i])
          /\ Out.why[j].text \in {DisagreeAlert, StormAlert}
          /\ StartsWith(Out.why[k].text, <<"Nitrogen">>)

----------------------------------------------------------------------------
(* C12: without forecast points (weather absent, or present with an empty  *)
(* forecast list) the engine runs to a response; with a sensor reading it  *)
(* takes the API 24 h rainfall as 0 and the rationale holds the            *)
(* "No weather forecast available" note; without a sensor reading the      *)
(* irrigation logic stops before the forecast is looked at and the note    *)
(* is absent. With forecast points the note is never written.              *)

NoForecastPoints == ~WeatherPresent \/ snapshot.weather[1].forecast_72h = <<>>

NoForecastNote ==
    <<"No", "weather", "forecast", "available;", "assuming", "0", "rain.">>

\* as stated: the note whatever the sensor reading
C12_NoForecastNotedAlways ==
    (Done /\ NoForecastPoints) => (ApiRain24h = 0 /\ Explains(NoForecastNote))

C12_NoForecastNotedWithSensor ==
    Done =>
        /\ rec # None
        /\ NoForecastPoints => ApiRain24h = 0
        /\ Explains(NoForecastNote) <=> (NoForecastPoints /\ SensorPresent)
        /\ (NoForecastPoints /\ Deficit /\ ModelRain24h <= AiRainTodayLimit
                /\ ModelRain48h <= StormLimit)
              => Out.irrigation.action = "IRRIGATE_NOW"

\* weather present, its forecast list empty, a dry reading: irrigate on 0 rain
C12_Witness ==
    /\ Done /\ Deficit
    /\ WeatherPresent /\ snapshot.weather[1].forecast_72h = <<>>
    /\ Explains(NoForecastNote)
    /\ Out.irrigation.action = "IRRIGATE_NOW"

----------------------------------------------------------------------------
(* C13: the API 24 h rainfall is the sum of rainfall_mm over exactly the   *)
(* forecast points with ts <= snapshot_ts + 24 h, the boundary included,   *)
(* whatever the wall clock reads when the engine runs; the irrigation      *)
(* decision taken on it follows that sum.                                  *)

ForecastPoints == IF WeatherPresent THEN snapshot.weather[1].forecast_72h ELSE <<>>

InWindow(pt) == pt.ts <= snapshot.snapshot_ts + 24

RECURSIVE RainOf(_, _)
\* the rainfall of the points i..Len(l) of l that lie in the window
RainOf(l, i) ==
    IF i > Len(l) THEN 0
    ELSE (IF InWindow(l[i]) THEN l[i].rainfall_mm ELSE 0) + RainOf(l, i + 1)

WindowRain == RainOf(ForecastPoints, 1)

C13_WindowFromSnapshot ==
    /\ ApiRain24h = WindowRain
    /\ (Done /\ Deficit /\ ~ForecastUsable(lstm_forecast)) =>
          (Out.irrigation.action = "DELAY" <=> WindowRain > ApiRainTodayLimit)

\* the engine run at a wall-clock time later than snapshot_ts, on a forecast
\* with a point on the boundary and a rainy point one hour past it
C13_Witness ==
    /\ Done /\ Deficit /\ ~ForecastUsable(lstm_forecast)
    /\ now > snapshot.snapshot_ts /\ Out.ts = now
    /\ \E i, j \in 1..Len(ForecastPoints) :
          /\ ForecastPoints[i].ts = snapshot.snapshot_ts + 24
          /\ ForecastPoints[i].rainfall_mm > 0
          /\ ForecastPoints[j].ts = snapshot.snapshot_ts + 25
          /\ ForecastPoints[j].rainfall_mm > ApiRainTodayLimit
    /\ WindowRain <= ApiRainTodayLimit
    /\ Out.irrigation.action = "IRRIGATE_NOW"

----------------------------------------------------------------------------
(* C14: get_crop_requirements answers for every crop and stage string:     *)
(* the crop's entry for the stage if the table lists it, otherwise the     *)
(* crop's "vegetative" entry if the crop is known, otherwise the global    *)
(* default; an APPLY rationale cites the source of the entry so found.     *)

ListedCrops == {rice, wheat, maize}
ListedStages == {vegetative, flowering}

\* the thresholds looked up for the snapshot's crop and stage as they were sent
Thresholds == get_crop_requirements(snapshot.crop, snapshot.growth_stage)

C14_LookupOrder ==
    LET c == CropKey
        s == StageKey
        req == Thresholds
    IN  /\ (c \in ListedCrops /\ s \in ListedStages)
              => req = CROP_NUTRIENT_REQUIREMENTS(c)[s]
        /\ (c \in ListedCrops /\ s \notin ListedStages)
              => req = CROP_NUTRIENT_REQUIREMENTS(c)[vegetative]
        /\ c \notin ListedCrops => req = DEFAULT_REQUIREMENTS
        /\ (Done /\ SensorPresent /\ Out.fertilizer.action = "APPLY")
              => Explains(<<"As", "per:", req.sources[1]>>)

\* a known crop at a stage the table does not list, and a dose advised on
\* the crop's vegetative entry
C14_Witness ==
    /\ Done /\ SensorPresent
    /\ CropKey = wheat /\ StageKey = veg
    /\ Out.fertilizer.action = "APPLY"
    /\ Explains(<<"As", "per:", "TNAU rainfed">>)

----------------------------------------------------------------------------
(* C15: the lookup never throws; an unknown crop gets the default          *)
(* thresholds (N 280, P 10, K 120, pH 6.0-7.5, moisture 30) at every       *)
(* stage; a known crop at a stage not listed for it gets that crop's       *)
(* vegetative thresholds, which for wheat are not the default ones, so a   *)
(* wheat reading at 25 % moisture is adequate at an unlisted stage.        *)

DefaultNumbers(req) ==
    /\ req.n_min = 280 /\ req.p_min = 10 /\ req.k_min = 120
    /\ req.ph_range = <<60, 75>> /\ req.moisture_min = 30

\* as stated: the default for an unknown crop and for an unlisted stage alike
C15_UnlistedGetsDefault ==
    (CropKey \notin ListedCrops \/ StageKey \notin ListedStages)
        => DefaultNumbers(Thresholds)

C15_UnknownCropGetsDefault ==
    /\ CropKey \notin ListedCrops => DefaultNumbers(Thresholds)
    /\ (CropKey \in ListedCrops /\ StageKey \notin ListedStages)
          => /\ Thresholds = get_crop_requirements(CropKey, vegetative)
             /\ CropKey = wheat => (Thresholds.k_min = 110 /\ Thresholds.moisture_min = 25)
    /\ (Done /\ SensorPresent /\ CropKey = wheat /\ StageKey \notin ListedStages
          /\ Sensor = Reading(300, 15, 140, 70, 25))
          => Out.fertilizer.action = "NO_ACTION"

\* wheat at the unlisted stage "veg" with 25 % moisture: adequate by wheat's
\* vegetative entry, short by the default one
C15_Witness ==
    /\ Done /\ SensorPresent
    /\ CropKey = wheat /\ StageKey = veg
    /\ Sensor = Reading(300, 15, 140, 70, 25)
    /\ Out.fertilizer.action = "NO_ACTION"
    /\ ~DefaultNumbers(Thresholds)

----------------------------------------------------------------------------
(* C16: crop and stage are case-folded before every lookup: sending the    *)
(* same crop and stage in another letter case (all upper, all lower,       *)
(* capitalised) gives the same thresholds, the same irrigation threshold   *)
(* and volume, the same dose and the same irrigation and fertilizer        *)
(* decisions.                                                              *)

AllUpper(s) == [i \in 1..Len(s) |-> UpperChar(s[i])]
AllLower(s) == [i \in 1..Len(s) |-> LowerChar(s[i])]
Capitalized(s) == [i \in 1..Len(s) |-> IF i = 1 THEN UpperChar(s[i]) ELSE LowerChar(s[i])]

\* spellings of the pair that differ from it in letter case only
CaseVariants(c, s) ==
    {<<AllUpper(c), AllUpper(s)>>, <<AllLower(c), Capitalized(s)>>,
     <<Capitalized(c), AllLower(s)>>}

Respelled(v) == [snapshot EXCEPT !.crop = v[1], !.growth_stage = v[2]]

C16_CaseFolded ==
    LET req == Thresholds
        decided == Decision(Out)
    IN  \A v \in CaseVariants(snapshot.crop, snapshot.growth_stage) :
            /\ get_crop_requirements(v[1], v[2]) = req
            /\ Done =>
                  Decision(generate_recommendation_logic(Respelled(v), lstm_forecast,
                                                         classifier_out))
                      = decided

\* "Wheat" at "Flowering" decided on wheat's flowering entry and dose
C16_Witness ==
    /\ Done /\ SensorPresent
    /\ snapshot.crop = Wheat /\ snapshot.growth_stage = Flowering
    /\ Thresholds = CROP_NUTRIENT_REQUIREMENTS(wheat)[flowering]
    /\ Thresholds # DEFAULT_REQUIREMENTS
    /\ Out.fertilizer.action = "APPLY"
    /\ Out.fertilizer.n_kg_acre = FERTILIZER_TARGETS(wheat, flowering).n
    /\ FERTILIZER_TARGETS(wheat, flowering) # DefaultTarget

----------------------------------------------------------------------------
(* C17: check_nutrient_adequacy marks N, P, K and moisture adequate        *)
(* exactly when the value is >= its threshold and pH adequate exactly when *)
(* low <= pH <= high, and the deficiencies list holds one message for each *)
(* failing check and none for a passing one, in the order N, P, K, pH,     *)
(* moisture.                                                               *)

Adequacy ==
    check_nutrient_adequacy(snapshot.crop, snapshot.growth_stage, Sensor.n, Sensor.p,
                            Sensor.k, Sensor.ph, Sensor.moisture)

\* which check a deficiency message speaks of
CheckOf(m) ==
    IF StartsWith(m.text, <<"Nitrogen">>) THEN "N"
    ELSE IF StartsWith(m.text, <<"Phosphorus">>) THEN "P"
    ELSE IF StartsWith(m.text, <<"Potassium">>) THEN "K"
    ELSE IF Contains(m.text, <<"pH">>) THEN "pH"
    ELSE IF StartsWith(m.text, <<"Soil", "moisture">>) THEN "moisture"
    ELSE "none"

Failing(check, passes) == IF passes THEN <<>> ELSE <<check>>

C17_AdequacyChecks ==
    SensorPresent =>
        LET req == Thresholds
            a == Adequacy
            n_ok == Sensor.n >= req.n_min
            p_ok == Sensor.p >= req.p_min
            k_ok == Sensor.k >= req.k_min
            ph_ok == req.ph_range[1] <= Sensor.ph /\ Sensor.ph <= req.ph_range[2]
            m_ok == Sensor.moisture >= req.moisture_min
        IN  /\ a.n_adequate = n_ok
            /\ a.p_adequate = p_ok
            /\ a.k_adequate = k_ok
            /\ a.ph_adequate = ph_ok
            /\ a.moisture_adequate = m_ok
            /\ [i \in 1..Len(a.deficiencies) |-> CheckOf(a.deficiencies[i])]
                  = Failing("N", n_ok) \o Failing("P", p_ok) \o Failing("K", k_ok)
                    \o Failing("pH", ph_ok) \o Failing("moisture", m_ok)

\* N, pH and moisture exactly on their thresholds, P and K short: the
\* engine has advised a dose on the two messages, P before K
C17_Witness ==
    /\ Done /\ SensorPresent
    /\ Sensor.n = Thresholds.n_min
    /\ Sensor.ph = Thresholds.ph_range[1]
    /\ Sensor.moisture = Thresholds.moisture_min
    /\ Sensor.p < Thresholds.p_min /\ Sensor.k < Thresholds.k_min
    /\ Len(Adequacy.deficiencies) = 2
    /\ Out.fertilizer.action = "APPLY"
    /\ \E i \in 1..(Len(Out.why) - 1) :
          /\ StartsWith(Out.why[i].text, <<"Phosphorus">>)
          /\ StartsWith(Out.why[i + 1].text, <<"Potassium">>)

----------------------------------------------------------------------------
(* C18: the engine has no fatal error path: every request has an answer,   *)
(* pending or given, whatever parts of the snapshot are present, whatever  *)
(* the crop and stage strings, the model forecast (none, a list shorter    *)
(* than 2, three values) and the classifier outcome (a label or a          *)
(* sentinel); the answer's irrigation action is one of IRRIGATE_NOW,       *)
(* DELAY, NO_ACTION, UNKNOWN and its fertilizer action one of APPLY,       *)
(* NO_ACTION.                                                              *)

IrrigationActions == {"IRRIGATE_NOW", "DELAY", "NO_ACTION", "UNKNOWN"}
FertilizerActions == {"APPLY", "NO_ACTION"}

\* the answer to the request: the one given, or the one a pending request gets
Answer ==
    IF Done THEN Out
    ELSE generate_recommendation_logic(snapshot, lstm_forecast, classifier_out)

C18_AlwaysAnswers ==
    LET r == Answer
    IN  /\ Done => rec # None
        /\ r.field_id = snapshot.field_id
        /\ r.irrigation.action \in IrrigationActions
        /\ r.fertilizer.action \in FertilizerActions
        /\ r.data_completeness \in 0..100
        /\ r.why # <<>>

\* nothing but crop and stage in the snapshot, an unknown crop, a model
\* forecast of one value: still an answer, and its rationale says why
C18_Witness ==
    /\ Done
    /\ ~SensorPresent /\ ~WeatherPresent /\ ~ImagePresent
    /\ CropKey \notin ListedCrops
    /\ lstm_forecast # None /\ Len(lstm_forecast[1]) = 1
    /\ Out.irrigation.action = "UNKNOWN"
    /\ Out.fertilizer.action = "NO_ACTION"
    /\ Len(Out.why) = 4

----------------------------------------------------------------------------
(* C19: the engine called again, at a later wall-clock time, with the same *)
(* snapshot, model forecast and classifier answer gives a response equal   *)
(* to the first in every field (actions, volume, dose, timings,            *)
(* data_completeness, rationale, classifier label, model forecast,         *)
(* risk_alert) except the generation timestamp.                            *)

Unstamped(r) == [r EXCEPT !.ts = 0]

\* the step in which a repeated request is answered
AnsweredAgain == pc = "request" /\ rec # None /\ pc' = "done"

C19_SameAnswerAgain ==
    [][AnsweredAgain => (rec' # None /\ Unstamped(rec'[1]) = Unstamped(rec[1]))]_vars

\* a second answer, stamped later than the snapshot, that delays irrigation
\* under a risk alert and advises a dose
C19_Witness ==
    /\ Done /\ now > 0
    /\ Out.ts = now /\ Out.ts # snapshot.snapshot_ts
    /\ Out.irrigation.action = "DELAY"
    /\ Out.risk_alert # None
    /\ Out.fertilizer.action = "APPLY"

----------------------------------------------------------------------------
(* C20: predict_next_3_days never raises to its caller: it returns three   *)
(* zeros when the field's model file or scaler file does not exist or when *)
(* a step of loading or inference fails, and otherwise three values, each  *)
(* the predicted rainfall or 0 where that is negative.                     *)

Returned == ppc = "returned"

C20_PredictNeverRaises ==
    /\ ppc # "raised"
    /\ Returned =>
          /\ Len(prediction) = 3
          /\ \A i \in 1..3 : prediction[i] >= 0
          /\ (model_file = "absent" \/ scaler_file = "absent" \/ exc # None)
                => prediction = <<0, 0, 0>>
          /\ (found /\ exc = None)
                => \A i \in 1..3 :
                      prediction[i] = IF raw[1][i] < 0 THEN 0 ELSE raw[1][i]

\* a prediction with a negative day clamped and a rainy day kept
C20_Witness ==
    /\ Returned /\ found /\ exc = None
    /\ \E i, j \in 1..3 :
          /\ raw[1][i] < 0 /\ prediction[i] = 0
          /\ raw[1][j] > 0 /\ prediction[j] = raw[1][j]

\* a file cut short, or a history without a column, answered with zeros
C20_FailureWitness ==
    /\ Returned /\ found /\ exc = Some("KeyError")
    /\ prediction = <<0, 0, 0>>


----------------------------------------------------------------------------
(* C21: POST /recommend/{field_id} for an existing field with a sensor     *)
(* reading succeeds: the answer has status 200, exactly one recommendation *)
(* row has been added, holding the actions, the data-completeness score    *)
(* and the rationale of the engine's answer, and the response carries that *)
(* row's id.                                                               *)

Served(endpoint) == apc = "done" /\ request.endpoint = endpoint
FieldExists == get_field(db, request.field_id) # None
Answered(code) == response # None /\ response[1].status = code

StoredOnce ==
    /\ Len(db.recommendations) = 1
    /\ LET row == db.recommendations[1]
           body == response[1].body
       IN /\ row.action_json.irrigation = rec[1].irrigation
          /\ row.action_json.fertilizer = rec[1].fertilizer
          /\ row.data_completeness = rec[1].data_completeness
          /\ row.why_json = rec[1].why
          /\ body.id = Some(row.id)

C21_RecommendStoresOneRecord ==
    (Served("recommend") /\ FieldExists /\ db.sensor # None)
        => (Answered(200) /\ StoredOnce)

\* the request that shows it: the field exists and has a sensor reading and no
\* image, the engine has answered, and the request ends with status 500 and
\* no row stored
C21_StoreFails ==
    /\ Served("recommend") /\ FieldExists /\ db.sensor # None /\ db.images = <<>>
    /\ rec # None
    /\ Answered(500)
    /\ db.recommendations = <<>>

----------------------------------------------------------------------------
(* C22: GET /field/{field_id}/latest answers every existing field with a   *)
(* snapshot, whatever subset of sensor reading, weather, forecast points   *)
(* and images exists; the snapshot carries the requested field_id and its  *)
(* missing_data names exactly the parts for which no row exists.           *)

Range(s) == {s[i] : i \in 1..Len(s)}

NoRows ==
    {part \in {"sensor_readings", "weather", "images", "forecast_72h"} :
        \/ part = "sensor_readings" /\ db.sensor = None
        \/ part = "weather" /\ db.weather = None
        \/ part = "images" /\ db.images = <<>>
        \/ part = "forecast_72h" /\ db.forecast = <<>>}

C22_LatestAlwaysReturnsSnapshot ==
    (Served("latest") /\ FieldExists)
        => /\ Answered(200)
           /\ response[1].body.field_id = request.field_id
           /\ Range(response[1].body.missing_data) = NoRows

\* the request that shows it: the field has an image and the request ends
\* with status 500
C22_ImageFails ==
    Served("latest") /\ FieldExists /\ db.images # <<>> /\ Answered(500)

\* without images the snapshot is returned as described
C22_WithoutImages ==
    (Served("latest") /\ FieldExists /\ db.images = <<>>)
        => /\ Answered(200)
           /\ response[1].body.field_id = request.field_id
           /\ Range(response[1].body.missing_data) = NoRows

----------------------------------------------------------------------------
(* C23: when the fertilizer action is APPLY, exactly one digital-check     *)
(* line is in the rationale: the agreement line when the classifier label  *)
(* names a deficiency the scientific check also found, and otherwise the   *)
(* line that quotes the label and suggests retesting; the decision is the  *)
(* same whatever the label.                                                *)

Applies == Done /\ SensorPresent /\ Out.fertilizer.action = "APPLY"

DigitalLines(why) ==
    {i \in 1..Len(why) : StartsWith(why[i].text, <<"Digital", "check:">>)}

ConfirmedLine(label) == <<"Digital", "check:", "Confirmed">> \o label
RetestLine(label) ==
    <<"Digital", "check:", "Suggests">> \o label \o <<"-", "consider", "retesting">>

\* the deficiencies of the scientific check: their first words in the list
\* check_nutrient_adequacy returns
Found(a, words) ==
    \E i \in 1..Len(a.deficiencies) : StartsWith(a.deficiencies[i].text, words)

\* the label names a deficiency that the scientific check found
NamesFoundDeficiency(label, a) ==
    \/ label = <<"Low", "Nitrogen">> /\ Found(a, <<"Nitrogen", "is", "low">>)
    \/ label = <<"Low", "Phosphorus">> /\ Found(a, <<"Phosphorus", "is", "low">>)
    \/ label = <<"Low", "Potassium">> /\ Found(a, <<"Potassium", "is", "low">>)
    \/ label = <<"Low", "Moisture">> /\ Found(a, <<"Soil", "moisture", "is", "low">>)
    \/ label = <<"Acidic", "Soil">> /\ Found(a, <<"Soil", "is", "too", "acidic">>)
    \/ label = <<"Alkaline", "Soil">> /\ Found(a, <<"Soil", "is", "too", "alkaline">>)

C23_OneDigitalCheckLine ==
    Applies =>
        LET lines == DigitalLines(Out.why)
            a == check_nutrient_adequacy(CropKey, StageKey, Sensor.n, Sensor.p, Sensor.k,
                                         Sensor.ph, Sensor.moisture)
        IN  /\ Cardinality(lines) = 1
            /\ \A i \in lines :
                  Out.why[i].text = IF NamesFoundDeficiency(classifier_out, a)
                                    THEN ConfirmedLine(classifier_out)
                                    ELSE RetestLine(classifier_out)
            /\ \A l \in Labels :
                  Decision(generate_recommendation_logic(snapshot, lstm_forecast, l))
                      = Decision(Out)

\* the request that shows it: the soil is acidic by the scientific check,
\* the classifier answers "Acidic Soil", and the line suggests retesting
C23_AcidicLabelRetested ==
    /\ Applies
    /\ classifier_out = <<"Acidic", "Soil">>
    /\ Sensor.ph < get_crop_requirements(CropKey, StageKey).ph_range[1]
    /\ \E i \in 1..Len(Out.why) : StartsWith(Out.why[i].text, <<"Soil", "is", "too", "acidic">>)
    /\ Explains(RetestLine(classifier_out))

\* what the code does: the agreement line for the three nutrient labels only
C23_NutrientLabelsOnly ==
    Applies =>
        LET lines == DigitalLines(Out.why)
            a == check_nutrient_adequacy(CropKey, StageKey, Sensor.n, Sensor.p, Sensor.k,
                                         Sensor.ph, Sensor.moisture)
            agrees == \/ classifier_out = <<"Low", "Nitrogen">> /\ ~a.n_adequate
                      \/ classifier_out = <<"Low", "Phosphorus">> /\ ~a.p_adequate
                      \/ classifier_out = <<"Low", "Potassium">> /\ ~a.k_adequate
        IN  /\ Cardinality(lines) = 1
            /\ \A i \in lines :
                  Out.why[i].text = IF agrees THEN ConfirmedLine(classifier_out)
                                    ELSE RetestLine(classifier_out)

----------------------------------------------------------------------------
(* C24: when the scientific check finds no deficiency the fertilizer       *)
(* action is NO_ACTION with zero dose, the rationale says the soil is      *)
(* healthy for the crop and stage and records the classifier label, and    *)
(* the retesting note is in the rationale exactly when the label is a      *)
(* "Low ..." label ("Healthy" and the sentinel labels never bring it).     *)

NothingFound ==
    /\ Done /\ SensorPresent
    /\ check_nutrient_adequacy(CropKey, StageKey, Sensor.n, Sensor.p, Sensor.k,
                               Sensor.ph, Sensor.moisture).deficiencies = <<>>

RetestNote ==
    <<"Note:", "Digital", "check", "found", "potential", "issue", "-", "consider", "retesting">>

LowLabel(label) == Head(label) = "Low"

C24_HealthySoil ==
    NothingFound =>
        LET out == Out
        IN  /\ out.fertilizer.action = "NO_ACTION"
            /\ out.fertilizer.n_kg_acre = 0
            /\ out.fertilizer.p_kg_acre = 0
            /\ out.fertilizer.k_kg_acre = 0
            /\ \E i \in 1..Len(out.why) :
                  /\ out.why[i].text = <<"Soil", "is", "healthy", "for", "(", "stage)">>
                  /\ out.why[i].args = Capitalize(CropKey) \o StageKey
            /\ \E i \in 1..Len(out.why) :
                  out.why[i].text = <<"Digital", "check:">> \o classifier_out
            /\ (\E i \in 1..Len(out.why) : out.why[i].text = RetestNote)
                  <=> LowLabel(classifier_out)

\* healthy soil and a "Low Nitrogen" answer: the note is there
C24_Witness ==
    /\ NothingFound
    /\ classifier_out = <<"Low", "Nitrogen">>
    /\ Explains(RetestNote)

\* healthy soil and a sentinel answer: no note
C24_SentinelWitness ==
    /\ NothingFound
    /\ classifier_out = <<"Model", "Not", "Available">>
    /\ ~Explains(RetestNote)

----------------------------------------------------------------------------
(* C25: the N/P/K dose is non-zero only when the fertilizer action is      *)
(* APPLY; it is then the target listed for the lower-cased crop and stage  *)
(* (wheat or rice, vegetative or flowering) and (40, 30, 20) whenever the  *)
(* crop or the stage is not listed; with NO_ACTION the dose is (0, 0, 0)   *)
(* and the timing is "N/A".                                                *)

Dose(f) == <<f.n_kg_acre, f.p_kg_acre, f.k_kg_acre>>

ListedTarget ==
    (wheat :> (vegetative :> <<50, 30, 20>> @@ flowering :> <<30, 40, 30>>))
    @@ (rice :> (vegetative :> <<60, 30, 30>> @@ flowering :> <<40, 40, 40>>))

ExpectedDose(crop, stage) ==
    IF crop \in DOMAIN ListedTarget /\ stage \in DOMAIN ListedTarget[crop]
    THEN ListedTarget[crop][stage]
    ELSE <<40, 30, 20>>

C25_Dose ==
    Done =>
        LET f == Out.fertilizer
        IN  /\ Dose(f) # <<0, 0, 0>> => f.action = "APPLY"
            /\ f.action = "APPLY" => Dose(f) = ExpectedDose(CropKey, StageKey)
            /\ f.action = "NO_ACTION" => (Dose(f) = <<0, 0, 0>> /\ f.timing = "N/A")

\* APPLY for a listed crop whose stage is not listed: the default dose
C25_Witness ==
    /\ Done
    /\ Out.fertilizer.action = "APPLY"
    /\ CropKey = rice /\ StageKey = veg
    /\ Dose(Out.fertilizer) = <<40, 30, 20>>

\* APPLY for a listed pair: its own dose
C25_ListedWitness ==
    /\ Done
    /\ Out.fertilizer.action = "APPLY"
    /\ CropKey = rice /\ StageKey = flowering
    /\ Dose(Out.fertilizer) = <<40, 40, 40>>

----------------------------------------------------------------------------
(* C28: with a sensor reading whose moisture is below the crop's           *)
(* threshold, whenever the model's 48 h rainfall exceeds 8.0 mm the        *)
(* irrigation action is DELAY, for rain today or for the approaching       *)
(* storm, and never IRRIGATE_NOW, whatever the API's 24 h figure is,       *)
(* exactly 2.0 mm included.                                                *)

C28_StormNeverIrrigates ==
    (Done /\ Deficit /\ ModelRain48h > 80) =>
        /\ Out.irrigation.action # "IRRIGATE_NOW"
        /\ Out.irrigation.action = "DELAY"
        /\ Out.irrigation.timing \in {"after rain", "until after storm"}

\* the request that shows it: the API says exactly 2.0 mm, the model at most
\* 3.0 mm today and more than 8.0 mm in 48 h, and the engine irrigates now
C28_IrrigatesAtTwoMillimetres ==
    /\ Done /\ Deficit
    /\ ApiRain24h = 20 /\ ModelRain24h <= 30 /\ ModelRain48h > 80
    /\ Out.irrigation.action = "IRRIGATE_NOW"

\* away from exactly 2.0 mm the engine delays as described
C28_DelaysAwayFromTwo ==
    (Done /\ Deficit /\ ModelRain48h > 80 /\ ApiRain24h # 20) =>
        /\ Out.irrigation.action = "DELAY"
        /\ Out.irrigation.timing \in {"after rain", "until after storm"}

----------------------------------------------------------------------------
(* C29: in every returned Recommendation the irrigation fields agree:      *)
(* liters_per_acre > 0 exactly when the action is IRRIGATE_NOW; the timing *)
(* is "now" exactly for IRRIGATE_NOW, "after rain" or "until after storm"  *)
(* exactly for DELAY, and "unknown" for NO_ACTION and UNKNOWN; the action  *)
(* is UNKNOWN exactly when the snapshot has no sensor reading; and a       *)
(* risk_alert that is not null is also a line of the rationale.            *)

C29_IrrigationConsistent ==
    Done =>
        LET out == Out
            irr == out.irrigation
        IN  /\ irr.action \in {"IRRIGATE_NOW", "DELAY", "NO_ACTION", "UNKNOWN"}
            /\ irr.liters_per_acre > 0 <=> irr.action = "IRRIGATE_NOW"
            /\ irr.timing = "now" <=> irr.action = "IRRIGATE_NOW"
            /\ irr.timing \in {"after rain", "until after storm"} <=> irr.action = "DELAY"
            /\ irr.action \in {"NO_ACTION", "UNKNOWN"} => irr.timing = "unknown"
            /\ irr.action = "UNKNOWN" <=> ~SensorPresent
            /\ out.risk_alert # None =>
                  \E i \in 1..Len(out.why) : out.why[i].text = out.risk_alert[1]

\* a delay for the storm with the storm alert explained
C29_Witness ==
    /\ Done /\ SensorPresent
    /\ Out.irrigation.action = "DELAY"
    /\ Out.irrigation.timing = "until after storm"
    /\ Out.irrigation.liters_per_acre = 0
    /\ Out.risk_alert = Some(StormAlert)
    /\ Explains(StormAlert)

\* irrigation now for a crop outside the table
C29_IrrigateWitness ==
    /\ Done
    /\ CropKey = barley
    /\ Out.irrigation.action = "IRRIGATE_NOW"
    /\ Out.irrigation.liters_per_acre = 400
    /\ Out.risk_alert = None

----------------------------------------------------------------------------
(* C26: a call of predict_next_3_days for a field that runs while the      *)
(* field is trained again either answers three zeros or computes its       *)
(* prediction from a scaler file and a model file written by the same      *)
(* training run; and no step of the call waits for the training.           *)

Answer26 == serving.answer[1]
LoadedModel == serving.model.content[1]
LoadedScaler == serving.scaler.content[1]

\* a step of the call can be taken
CallCanStep == ENABLED (ServeCheck \/ ServeLoadModel \/ ServeLoadScaler \/ ServeInfer)

C26_PredictionFromOneRun ==
    /\ serving.pc = "returned" =>
          \/ Answer26 = "zeros"
          \/ LoadedModel.written_by = LoadedScaler.written_by
    /\ serving.pc # "returned" => CallCanStep

\* the interleaving that shows it: the field has the files of an earlier
\* run, a new run has dumped its scaler and not yet saved its weights, and
\* the call computes from the old weights and the new scaler
C26_MixedRuns ==
    /\ serving.pc = "returned" /\ Answer26 = "computed"
    /\ LoadedModel.written_by = EarlierRun
    /\ LoadedScaler.written_by \in Runs
    /\ \A r \in Runs : training[r].field = serving.field => training[r].pc # "done"

\* the call is never made to wait
C26_NeverBlocked == serving.pc # "returned" => CallCanStep

----------------------------------------------------------------------------
(* C27: when training runs for two different fields interleave on the      *)
(* shared service, the scaler file saved for each field holds the scaler   *)
(* fitted on that field's own history.                                     *)

DifferentFields == \A r, o \in Runs : r # o => training[r].field # training[o].field

SavedScaler(f) == models_dir[f].scaler.content[1].scaler

C27_ScalerOfOwnField ==
    DifferentFields =>
        \A f \in Fields :
            Written(models_dir[f].scaler) => SavedScaler(f).fitted_on = f

\* the interleaving that shows it: the run for one field fits the shared
\* scaler, the run for the other field refits it, and the first run dumps it
C27_ForeignScaler ==
    /\ DifferentFields
    /\ \E r \in Runs :
          LET f == training[r].field
          IN  /\ Written(models_dir[f].scaler)
              /\ models_dir[f].scaler.content[1].written_by = r
              /\ SavedScaler(f).fitted_on # f
              /\ SavedScaler(f).fitted_by # r

----------------------------------------------------------------------------
(* C30: after any assign_sensor calls, two calls for the same sensor whose *)
(* steps interleave included, each sensor has at most one assignment with  *)
(* active = true, and every deactivated assignment has ended_at set.       *)

C30_OneActiveAssignment ==
    /\ \A s \in SensorIds : Cardinality(ActiveRows(assignments, s)) <= 1
    /\ \A i \in 1..Len(assignments) :
          ~assignments[i].active => assignments[i].ended_at # None

\* the interleaving that shows it: both calls read the table before either
\* commits, and both new rows are active
C30_TwoActive ==
    /\ \A c \in Calls : calls[c].pc = "done" /\ calls[c].status = 200
    /\ Cardinality(ActiveRows(assignments, "s1")) = 2

\* every deactivated assignment has ended_at set
C30_DeactivatedIsEnded ==
    \A i \in 1..Len(assignments) :
        ~assignments[i].active => assignments[i].ended_at # None

\* a sensor reassigned by one call after the other: the old row is ended
C30_EndedWitness ==
    /\ \A c \in Calls : calls[c].pc = "done" /\ calls[c].status = 200
    /\ Cardinality(ActiveRows(assignments, "s1")) = 1
    /\ \E i \in 1..Len(assignments) :
          ~assignments[i].active /\ assignments[i].ended_at # None
====
